---- MODULE Spec2Model ----
(***************************************************************************)
(* Model of the document ingestion pipeline of Real_Estate_Open:           *)
(*   agents/extraction_agent.py   ExtractionAgent (LLM call, response      *)
(*                                parsing, pydantic validation)            *)
(*   database/postgres_client.py  PostgreSQLClient (record store)          *)
(*   database/chroma_client.py    ChromaDBClient (vector store)            *)
(*   pipelines/dlt_pipeline.py    load_to_postgres_with_dlt                *)
(*   pipelines/document_pipeline.py  the Prefect tasks and flows           *)
(*                                                                         *)
(* Specifications:                                                         *)
(*   SpecExtract  one ExtractionAgent.extract call on bounded inputs       *)
(*   SpecPg       arbitrary sequences of PostgreSQLClient write calls      *)
(*   Spec         process_document_flow invoked repeatedly                 *)
(*   SpecDir      one process_all_documents_flow run over a directory      *)
(*   SpecChunk    one chunk_document_task call, step by step               *)
(*   SpecChroma   ChromaDBClient instances sharing one collection          *)
(*   SpecStore    record-store loads on both write paths, clear, queries   *)
(*   SpecPair     two process_document_flow runs under way at once         *)
(***************************************************************************)
EXTENDS Integers, Sequences, FiniteSets, TLC

(***************************************************************************)
(* Bounds                                                                  *)
(***************************************************************************)
\* longest LLM response, in tokens, enumerated by SpecExtract
MaxTokens == 3
\* number of PostgreSQLClient calls in one behaviour of SpecPg
MaxPgCalls == 3
\* number of process_document_flow invocations in one behaviour of Spec
MaxRuns == 2
\* largest number of PDF files in the directory of SpecDir
MaxDocs == 3

\* longest document text, in characters, of the small chunk_document_task calls
MaxTextLen == 6

\* largest chunk_size, and largest chunk_overlap less one, of those calls
MaxChunkSize == 4

\* iterations of the chunking loop that are followed
MaxChunkIters == 8

\* collections created under the one name in one behaviour of SpecChroma
MaxCollections == 3

\* number of record-store calls in one behaviour of SpecStore
MaxStoreCalls == 3

(***************************************************************************)
(* Data model: database/models.py                                          *)
(***************************************************************************)
\* ProjectTask fields; dates are day numbers
Task(id, name, dur, s, f) ==
    [task_id |-> id, task_name |-> name, duration_days |-> dur,
     start_date |-> s, finish_date |-> f]

\* CostItem fields
Cost(name, q, u, tot, ct) ==
    [item_name |-> name, quantity |-> q, unit_price_yen |-> u,
     total_cost_yen |-> tot, cost_type |-> ct]

\* RegulatoryRule fields
Rule(id, summary, basis) ==
    [rule_id |-> id, rule_summary |-> summary, measurement_basis |-> basis]

\* ProjectTask: duration_days has ge=0, validate_finish_after_start rejects
\* finish_date < start_date
ProjectTaskValid(r) ==
    /\ r.duration_days >= 0
    /\ ~(r.finish_date < r.start_date)

\* CostItem: ge=0 on the three decimals, validate_cost_type
AllowedCostTypes == {"Foreign cost", "Local cost", "foreign cost", "local cost"}

CostItemValid(r) ==
    /\ r.quantity >= 0
    /\ r.unit_price_yen >= 0
    /\ r.total_cost_yen >= 0
    /\ r.cost_type \in AllowedCostTypes

\* RegulatoryRule: three required strings, no validator
RegulatoryRuleValid(r) == TRUE

(***************************************************************************)
(* LLM responses.  A response is a sequence of tokens.  The structural     *)
(* characters of JSON are tokens of their own; an object literal token     *)
(* stands for the text of one flat JSON object {"k": v, ...}, which holds  *)
(* no square bracket and no inner brace.                                   *)
(***************************************************************************)
LB == "["
RB == "]"
LC == "{"
RC == "}"
COMMA == ","
COLON == ":"
STR == "\"s\""
NUM == "-7"
NULL == "null"
WORD == "word"
WS == " "

\* the object literals and the JSON object each one spells
ObjLiterals ==
    [T1a  |-> [kind |-> "task", rec |-> Task(1, "a", 1, 1, 2)],
     T1b  |-> [kind |-> "task", rec |-> Task(1, "b", 1, 1, 2)],
     T2a  |-> [kind |-> "task", rec |-> Task(2, "a", 0, 3, 3)],
     Tbad |-> [kind |-> "task", rec |-> Task(3, "a", 1, 2, 1)],
     Tnoname |-> [kind |-> "task", rec |-> Task(4, "", 1, 1, 2)],
     Tneg |-> [kind |-> "task", rec |-> Task(5, "a", -1, 1, 2)],
     Ca   |-> [kind |-> "cost", rec |-> Cost("a", 1, 1, 1, "Local cost")],
     Cb   |-> [kind |-> "cost", rec |-> Cost("b", 2, 1, 2, "foreign cost")],
     Cbad |-> [kind |-> "cost", rec |-> Cost("c", 1, 1, 1, "other")],
     R1a  |-> [kind |-> "rule", rec |-> Rule("Q1", "a", "wall")],
     R1b  |-> [kind |-> "rule", rec |-> Rule("Q1", "b", "wall")],
     R2a  |-> [kind |-> "rule", rec |-> Rule("Q2", "a", "floor")]]

IsObjLiteral(tok) == tok \in DOMAIN ObjLiterals

\* JSON values as json.loads builds them
JNull == [t |-> "null"]
JNum == [t |-> "num"]
JStr == [t |-> "str"]
JArr(items) == [t |-> "arr", items |-> items]
JObj(kind, rec) == [t |-> "obj", kind |-> kind, rec |-> rec]
\* an object spelled with the structural tokens; n is its member count
JGeneric(n) == JObj("generic", [members |-> n])

RECURSIVE SkipWs(_, _)
\* the json scanner skips whitespace between tokens
SkipWs(s, i) ==
    IF i <= Len(s) /\ s[i] = WS THEN SkipWs(s, i + 1) ELSE i

JFail == [ok |-> FALSE, val |-> JNull, next |-> 0]
JOk(v, n) == [ok |-> TRUE, val |-> v, next |-> n]

RECURSIVE ParseValue(_, _)
RECURSIVE ValueAt(_, _)
RECURSIVE ArrayBody(_, _, _)
RECURSIVE ParseElems(_, _, _)
RECURSIVE AfterElem(_, _, _)
RECURSIVE ElemSep(_, _, _)
RECURSIVE ObjectBody(_, _, _)
RECURSIVE ParseMembers(_, _, _)
RECURSIVE MemberKey(_, _, _)
RECURSIVE MemberColon(_, _, _)
RECURSIVE AfterMember(_, _, _)
RECURSIVE MemberSep(_, _, _)

\* json decoder: one value starting at or after position i
ParseValue(s, i) == ValueAt(s, SkipWs(s, i))

\* the value whose first token is at position j
ValueAt(s, j) ==
    IF j > Len(s) THEN JFail
    ELSE IF s[j] = STR THEN JOk(JStr, j + 1)
    ELSE IF s[j] = NUM THEN JOk(JNum, j + 1)
    ELSE IF s[j] = NULL THEN JOk(JNull, j + 1)
    ELSE IF IsObjLiteral(s[j])
         THEN JOk(JObj(ObjLiterals[s[j]].kind, ObjLiterals[s[j]].rec), j + 1)
    ELSE IF s[j] = LB THEN ArrayBody(s, j + 1, SkipWs(s, j + 1))
    ELSE IF s[j] = LC THEN ObjectBody(s, j + 1, SkipWs(s, j + 1))
    ELSE JFail

\* after "[": the empty array, or its elements; k is the next token
ArrayBody(s, i, k) ==
    IF k <= Len(s) /\ s[k] = RB THEN JOk(JArr(<<>>), k + 1)
    ELSE ParseElems(s, i, <<>>)

\* the elements of an array after "[" or ","
ParseElems(s, i, acc) == AfterElem(s, acc, ParseValue(s, i))

\* element v was decoded
AfterElem(s, acc, v) ==
    IF ~v.ok THEN JFail ELSE ElemSep(s, Append(acc, v.val), SkipWs(s, v.next))

\* "," or "]" expected at position k
ElemSep(s, acc, k) ==
    IF k > Len(s) THEN JFail
    ELSE IF s[k] = COMMA THEN ParseElems(s, k + 1, acc)
    ELSE IF s[k] = RB THEN JOk(JArr(acc), k + 1)
    ELSE JFail

\* after "{": the empty object, or its members; k is the next token
ObjectBody(s, i, k) ==
    IF k <= Len(s) /\ s[k] = RC THEN JOk(JGeneric(0), k + 1)
    ELSE ParseMembers(s, i, 0)

\* the members of an object after "{" or ","; n members were decoded
ParseMembers(s, i, n) == MemberKey(s, n, SkipWs(s, i))

\* a string key expected at position k
MemberKey(s, n, k) ==
    IF k > Len(s) \/ s[k] # STR THEN JFail
    ELSE MemberColon(s, n, SkipWs(s, k + 1))

\* ":" expected at position c
MemberColon(s, n, c) ==
    IF c > Len(s) \/ s[c] # COLON THEN JFail
    ELSE AfterMember(s, n, ParseValue(s, c + 1))

\* member value v was decoded
AfterMember(s, n, v) ==
    IF ~v.ok THEN JFail ELSE MemberSep(s, n + 1, SkipWs(s, v.next))

\* "," or "}" expected at position e
MemberSep(s, n, e) ==
    IF e > Len(s) THEN JFail
    ELSE IF s[e] = COMMA THEN ParseMembers(s, e + 1, n)
    ELSE IF s[e] = RC THEN JOk(JGeneric(n), e + 1)
    ELSE JFail

\* only whitespace may follow the decoded value v
JsonEnd(s, v) ==
    IF v.ok /\ SkipWs(s, v.next) > Len(s)
    THEN [ok |-> TRUE, val |-> v.val]
    ELSE [ok |-> FALSE, val |-> JNull]

\* json.loads: one value, then only whitespace up to the end
JsonLoads(s) == JsonEnd(s, ParseValue(s, 1))

(***************************************************************************)
(* ExtractionAgent: agents/extraction_agent.py                             *)
(***************************************************************************)
\* document-type labels and the dispatch keywords lower(label) contains
LabelKeywords ==
    [schedule       |-> {"schedule"},
     cost           |-> {"cost"},
     regulatory     |-> {"regulatory"},
     general        |-> {},
     Project_Cost   |-> {"project", "cost"}]

Labels == DOMAIN LabelKeywords

\* the keyword chain  "schedule"/"project", "cost"/"costing",
\* "ura"/"regulatory"/"gfa", else unknown
DocKind(document_type) ==
    LET kw == LabelKeywords[document_type] IN
    IF kw \cap {"schedule", "project"} # {} THEN "task"
    ELSE IF kw \cap {"cost", "costing"} # {} THEN "cost"
    ELSE IF kw \cap {"ura", "regulatory", "gfa"} # {} THEN "rule"
    ELSE "none"

\* not response.strip()
IsBlank(response) == \A i \in 1..Len(response) : response[i] = WS

\* response.strip()
Strip(response) ==
    IF IsBlank(response) THEN <<>>
    ELSE LET first == CHOOSE i \in 1..Len(response) :
                          /\ response[i] # WS
                          /\ \A j \in 1..(i - 1) : response[j] = WS
             last  == CHOOSE i \in 1..Len(response) :
                          /\ response[i] # WS
                          /\ \A j \in (i + 1)..Len(response) : response[j] = WS
         IN SubSeq(response, first, last)

NoMatch == [found |-> FALSE, text |-> <<>>]

\* re.search(r'\[[\s\S]*\]', response): leftmost "[" up to the last "]"
ArrayMatch(response) ==
    LET opens  == {i \in 1..Len(response) : response[i] = LB}
        closes == {j \in 1..Len(response) : response[j] = RB}
    IN IF \E i \in opens : \E j \in closes : j > i
       THEN LET i == CHOOSE a \in opens : \A b \in opens : a <= b
                j == CHOOSE a \in closes : \A b \in closes : a >= b
            IN [found |-> TRUE, text |-> SubSeq(response, i, j)]
       ELSE NoMatch

\* re.search(r'\{[\s\S]*\}', response): leftmost "{" up to the last "}";
\* an object literal carries its own opening and closing brace
ObjectMatch(response) ==
    LET opens  == {i \in 1..Len(response) :
                       response[i] = LC \/ IsObjLiteral(response[i])}
        closes == {j \in 1..Len(response) :
                       response[j] = RC \/ IsObjLiteral(response[j])}
    IN IF \E i \in opens : \E j \in closes :
              j > i \/ (j = i /\ IsObjLiteral(response[i]))
       THEN LET i == CHOOSE a \in opens : \A b \in opens : a <= b
                j == CHOOSE a \in closes : \A b \in closes : a >= b
            IN [found |-> TRUE, text |-> SubSeq(response, i, j)]
       ELSE NoMatch

\* extracted_data is None
PyNone == [ok |-> FALSE, val |-> JNull]

\* a decoded value bound to extracted_data; JSON null is None
PyBind(loaded) ==
    IF loaded.ok /\ loaded.val.t # "null" THEN loaded ELSE PyNone

\* json.loads of a regex match, when there is one
LoadMatch(m) == IF m.found THEN JsonLoads(m.text) ELSE PyNone

\* Strategy 1: the bracketed substring parsed as JSON
Strategy1(response) == PyBind(LoadMatch(ArrayMatch(response)))

\* Strategy 2: the whole stripped response parsed as JSON
Strategy2(response) == PyBind(JsonLoads(Strip(response)))

\* [obj] if isinstance(obj, dict) else obj
WrapDict(loaded) ==
    IF loaded.ok /\ loaded.val.t = "obj"
    THEN [ok |-> TRUE, val |-> JArr(<<loaded.val>>)]
    ELSE PyBind(loaded)

\* Strategy 3: the braced substring parsed as JSON, a dict wrapped in a list
Strategy3(response) == WrapDict(LoadMatch(ObjectMatch(response)))

\* "if extracted_data is None": the next strategy runs only then
OrElse(first, next) == IF first.ok THEN first ELSE next

\* the three strategies in order, the first that binds a value wins
ParseResponse(response) ==
    OrElse(OrElse(Strategy1(response), Strategy2(response)), Strategy3(response))

\* the LLM either raises or returns a text
LlmRaises == [raises |-> TRUE, text |-> <<>>]
LlmReturns(text) == [raises |-> FALSE, text |-> text]

\* a tail that wraps None in a list the way it wraps a dict
EnsureListWrapsNone(parsed) ==
    IF ~parsed.ok THEN JArr(<<JNull>>)
    ELSE IF parsed.val.t = "obj" THEN JArr(<<parsed.val>>)
    ELSE IF parsed.val.t = "num" THEN JArr(<<>>)
    ELSE parsed.val

\* the tail of _extract_with_llm, from "if extracted_data is None"
EnsureList(parsed) ==
    IF ~parsed.ok THEN JArr(<<>>)
    ELSE IF parsed.val.t = "obj" THEN JArr(<<parsed.val>>)
    \* len() of a number raises TypeError, caught by except Exception
    ELSE IF parsed.val.t = "num" THEN JArr(<<>>)
    ELSE parsed.val

\* _extract_with_llm: the value it returns, a list or (for a bare JSON
\* string) a str; every exception ends in "return []"
ExtractWithLlm(document_type, llm) ==
    IF DocKind(document_type) = "none" THEN JArr(<<>>)
    ELSE IF llm.raises THEN JArr(<<>>)
    ELSE IF llm.text = <<>> \/ IsBlank(llm.text) THEN JArr(<<>>)
    ELSE EnsureList(ParseResponse(llm.text))

\* an agent that asks the LLM once more after it raised or answered blank
GenerateCallsRetrying(use_llm, document_type, llm) ==
    IF ~use_llm \/ DocKind(document_type) = "none" THEN <<>>
    ELSE IF llm.raises \/ IsBlank(llm.text)
    THEN <<DocKind(document_type), DocKind(document_type)>>
    ELSE <<DocKind(document_type)>>

\* the llm_client.generate calls of one extract call, each named by the
\* prompt it sends: none in rule-based mode, none for a label without a
\* prompt, else the one call before the response is looked at
GenerateCalls(use_llm, document_type, llm) ==
    IF ~use_llm THEN <<>>
    ELSE IF DocKind(document_type) = "none" THEN <<>>
    ELSE <<DocKind(document_type)>>

\* _extract_with_rules: the stub
ExtractWithRules(document_type) == JArr(<<>>)

\* the items a for loop over the value visits: list elements, or the
\* characters of a str (STR spells a one-character string)
PyItems(v) == IF v.t = "arr" THEN v.items ELSE <<JStr>>

\* not extracted_data
PyEmpty(v) == v.t = "arr" /\ v.items = <<>>

\* the model constructor of one kind applied to a dict
ModelAccepts(kind, item) ==
    /\ item.kind = kind
    /\ CASE kind = "task" -> ProjectTaskValid(item.rec)
         [] kind = "cost" -> CostItemValid(item.rec)
         [] kind = "rule" -> RegulatoryRuleValid(item.rec)

\* item.get(<key field>, 'unknown') as printed in the error string
ErrorKey(kind, item) ==
    IF item.kind # kind THEN "unknown"
    ELSE CASE kind = "task" -> ToString(item.rec.task_id)
           [] kind = "cost" -> item.rec.item_name
           [] kind = "rule" -> item.rec.rule_id

ValidationError(kind, key) == [type |-> "validation", kind |-> kind, key |-> key]
ExceptionError(what) == [type |-> "exception", kind |-> "none", key |-> what]

Validated(valid, errors) == [raised |-> FALSE, valid |-> valid, errors |-> errors]
ValidateRaised == [raised |-> TRUE, valid |-> <<>>, errors |-> <<>>]

RECURSIVE ValidateLoop(_, _, _, _, _)
\* the per-item loop of _validate_data; an item that is no dict makes the
\* constructor raise TypeError and then item.get raise AttributeError
\* inside the handler, which leaves _validate_data
ValidateLoop(items, kind, i, valid, errors) ==
    IF i > Len(items) THEN Validated(valid, errors)
    ELSE IF items[i].t # "obj" THEN ValidateRaised
    ELSE IF ModelAccepts(kind, items[i])
         THEN ValidateLoop(items, kind, i + 1, Append(valid, items[i].rec), errors)
         ELSE ValidateLoop(items, kind, i + 1, valid,
                           Append(errors, ValidationError(kind, ErrorKey(kind, items[i]))))

\* _validate_data
ValidateData(extracted_data, document_type) ==
    IF PyEmpty(extracted_data) THEN Validated(<<>>, <<>>)
    ELSE IF DocKind(document_type) = "none" THEN Validated(<<>>, <<>>)
    ELSE ValidateLoop(PyItems(extracted_data), DocKind(document_type), 1, <<>>, <<>>)

ExtractResult(data, errors, success) ==
    [extracted_data |-> data, errors |-> errors, success |-> success]

Returned(value) == [status |-> "returned", value |-> value]
Raised(what) == [status |-> "raised", value |-> what]

\* the body of extract up to the validation call
ExtractBody(use_llm, document_type, llm) ==
    ValidateData(IF use_llm THEN ExtractWithLlm(document_type, llm)
                 ELSE ExtractWithRules(document_type),
                 document_type)

\* a return statement that reports success only if something was extracted
TryReturnNeedsData(v) ==
    IF v.raised THEN Raised("AttributeError")
    ELSE Returned(ExtractResult(v.valid, v.errors,
                                Len(v.errors) = 0 /\ Len(v.valid) > 0))

\* the return statement of the try branch, or the exception leaving it
TryReturn(v) ==
    IF v.raised THEN Raised("AttributeError")
    ELSE Returned(ExtractResult(v.valid, v.errors, Len(v.errors) = 0))

\* the except branch turns the exception into a result
ExceptReturn(outcome) ==
    IF outcome.status = "raised"
    THEN Returned(ExtractResult(<<>>, <<ExceptionError(outcome.value)>>, FALSE))
    ELSE outcome

\* extract with the try/except around its body removed
ExtractUncaught(use_llm, document_type, llm) ==
    TryReturn(ExtractBody(use_llm, document_type, llm))

\* ExtractionAgent.extract: how the call ends
Extract(use_llm, document_type, llm) ==
    ExceptReturn(TryReturn(ExtractBody(use_llm, document_type, llm)))

(***************************************************************************)
(* PostgreSQLClient: database/postgres_client.py.  A table is the sequence *)
(* of its rows in insertion order; the surrogate id and the timestamp      *)
(* columns are left out.                                                   *)
(***************************************************************************)
\* the insert without its on_conflict_do_update clause
InsertProjectTaskNoConflict(table, task) ==
    Append(table, Task(task.task_id, task.task_name, task.duration_days,
                       task.start_date, task.finish_date))

\* insert(ProjectTaskModel).values(...).on_conflict_do_update(
\*     index_elements=['task_id'], set_=<the four other columns>)
UpsertProjectTask(table, task) ==
    IF \E i \in 1..Len(table) : table[i].task_id = task.task_id
    THEN [i \in 1..Len(table) |->
             IF table[i].task_id = task.task_id
             THEN Task(table[i].task_id, task.task_name, task.duration_days,
                       task.start_date, task.finish_date)
             ELSE table[i]]
    ELSE Append(table, Task(task.task_id, task.task_name, task.duration_days,
                            task.start_date, task.finish_date))

\* an insert that skips a row already stored
InsertCostItemDedup(table, item) ==
    IF \E i \in 1..Len(table) : table[i] = item THEN table ELSE Append(table, item)

\* insert(CostItemModel).values(...): a plain insert; the small integral
\* amounts of the model are unchanged by float() and Numeric(15, 2)
InsertCostItem(table, item) ==
    Append(table, Cost(item.item_name, item.quantity, item.unit_price_yen,
                       item.total_cost_yen, item.cost_type))

\* insert(RegulatoryRuleModel).values(...).on_conflict_do_update(
\*     index_elements=['rule_id'], set_=<the two other columns>)
UpsertRegulatoryRule(table, rule) ==
    IF \E i \in 1..Len(table) : table[i].rule_id = rule.rule_id
    THEN [i \in 1..Len(table) |->
             IF table[i].rule_id = rule.rule_id
             THEN Rule(table[i].rule_id, rule.rule_summary, rule.measurement_basis)
             ELSE table[i]]
    ELSE Append(table, Rule(rule.rule_id, rule.rule_summary, rule.measurement_basis))

\* one statement of the given insert method
ExecuteStatement(op, table, record) ==
    CASE op = "insert_project_tasks" -> UpsertProjectTask(table, record)
      [] op = "insert_cost_items" -> InsertCostItem(table, record)
      [] op = "insert_regulatory_rules" -> UpsertRegulatoryRule(table, record)

RECURSIVE ExecuteFirst(_, _, _, _)
\* the for loop of an insert method after its first n session.execute calls
ExecuteFirst(op, table, records, n) ==
    IF n = 0 THEN table
    ELSE ExecuteStatement(op, ExecuteFirst(op, table, records, n - 1), records[n])

\* a session that commits what was executed even when the body raised
GetSessionNoRollback(table, work, failed) == work

\* get_session: commit when the body ends normally, rollback when it raises;
\* the result is the table as other sessions see it afterwards
GetSession(table, work, failed) ==
    IF failed THEN table ELSE work

\* where a write call fails: 0 nowhere, k in 1..Len at its k-th
\* session.execute, Len + 1 at session.commit
FailPoints(records) == 0..(Len(records) + 1)

\* insert_project_tasks / insert_cost_items / insert_regulatory_rules
InsertRecords(op, table, records, fail_at) ==
    LET failed == fail_at # 0
        done == IF failed /\ fail_at <= Len(records) THEN fail_at - 1 ELSE Len(records)
        work == ExecuteFirst(op, table, records, done)
    IN [raised |-> failed,
        count |-> IF failed THEN 0 ELSE Len(records),
        table |-> GetSession(table, work, failed)]

InsertProjectTasks(table, tasks, fail_at) ==
    InsertRecords("insert_project_tasks", table, tasks, fail_at)

InsertCostItems(table, items, fail_at) ==
    InsertRecords("insert_cost_items", table, items, fail_at)

InsertRegulatoryRules(table, rules, fail_at) ==
    InsertRecords("insert_regulatory_rules", table, rules, fail_at)

\* str(row.start_date): the ISO text of a date
DateStr(d) == [iso |-> d]

\* the dict query_project_tasks builds from a row
TaskRow(row) ==
    [task_id |-> row.task_id, task_name |-> row.task_name,
     duration_days |-> row.duration_days,
     start_date |-> DateStr(row.start_date),
     finish_date |-> DateStr(row.finish_date)]

\* the dict query_cost_items builds from a row; float() leaves the small
\* whole numbers of the model as they are
CostRow(row) ==
    [item_name |-> row.item_name, quantity |-> row.quantity,
     unit_price_yen |-> row.unit_price_yen,
     total_cost_yen |-> row.total_cost_yen, cost_type |-> row.cost_type]

\* def query_project_tasks(self, limit: int = 100)
DefaultQueryLimit == 100

\* SELECT ... LIMIT :limit has no ORDER BY: the rows it may pick, as sets of
\* positions in the table
LimitChoices(table, limit) ==
    {picked \in SUBSET (1..Len(table)) :
        Cardinality(picked) = IF limit < Len(table) THEN limit ELSE Len(table)}

RECURSIVE RowsAt(_, _, _)
\* the rows of the table at the picked positions, from position i on
RowsAt(table, picked, i) ==
    IF i > Len(table) THEN <<>>
    ELSE (IF i \in picked THEN <<table[i]>> ELSE <<>>) \o RowsAt(table, picked, i + 1)

\* the list comprehension over the fetched rows
RowDicts(kind, rows) ==
    [i \in 1..Len(rows) |-> IF kind = "task" THEN TaskRow(rows[i]) ELSE CostRow(rows[i])]

\* query_project_tasks / query_cost_items: the rows of the dlt table if the
\* SELECT on it yields any; if it yields none or raises (dlt_fails), the
\* rows of the SQLAlchemy table; if that query raises (query_fails), or the
\* connection cannot be made (both), the empty list of the outer except
QueryRows(kind, dlt_table, table, dlt_picked, picked, dlt_fails, query_fails) ==
    IF ~dlt_fails /\ RowsAt(dlt_table, dlt_picked, 1) # <<>>
    THEN RowDicts(kind, RowsAt(dlt_table, dlt_picked, 1))
    ELSE IF query_fails THEN <<>>
    ELSE RowDicts(kind, RowsAt(table, picked, 1))

\* clear_all_data: session.query(Model).delete() on the three SQLAlchemy
\* models in one session; tables maps the name of every table of the
\* database to its rows
ClearAllData(tables, fails) ==
    IF fails THEN [raised |-> TRUE, tables |-> tables, deleted |-> <<>>]
    ELSE [raised |-> FALSE,
          tables |-> [tables EXCEPT !.project_tasks = <<>>, !.cost_items = <<>>,
                                    !.regulatory_rules = <<>>],
          deleted |-> [tasks_deleted |-> Len(tables.project_tasks),
                       items_deleted |-> Len(tables.cost_items),
                       rules_deleted |-> Len(tables.regulatory_rules)]]

(***************************************************************************)
(* load_to_postgres_with_dlt: pipelines/dlt_pipeline.py.  The three        *)
(* resources are declared with a bare @dlt.resource, that is with dlt's    *)
(* default write disposition "append" and no primary key: a run adds the   *)
(* yielded rows to the table real_estate_data.<resource name>.             *)
(***************************************************************************)
\* pipeline.run(resources) on one resource, when it does not raise
DltAppend(table, rows) == table \o rows

(***************************************************************************)
(* ChromaDBClient: database/chroma_client.py.  The collection is the       *)
(* sequence of its entries in insertion order.                             *)
(***************************************************************************)
\* the embedding model, a function of the text alone
Embed(text) == [of |-> text]

\* the entry add_chunks prepares for one DocumentChunk
ChromaEntry(chunk) ==
    [id |-> chunk.chunk_id,
     embedding |-> Embed(chunk.chunk_text),
     document |-> chunk.chunk_text,
     metadata |-> [document_name |-> chunk.document_name,
                   chunk_index |-> chunk.chunk_index,
                   start_char |-> chunk.metadata.start_char,
                   end_char |-> chunk.metadata.end_char,
                   chunk_size |-> chunk.metadata.chunk_size]]

\* collection.add of one entry: an id the collection already holds is
\* skipped (chromadb >= 0.4, the versions that have PersistentClient)
CollectionAdd(coll, entry) ==
    IF \E i \in 1..Len(coll) : coll[i].id = entry.id THEN coll
    ELSE Append(coll, entry)

RECURSIVE CollectionAddAll(_, _, _)
\* collection.add(ids, embeddings, documents, metadatas) for chunks 1..n
CollectionAddAll(coll, chunks, n) ==
    IF n = 0 THEN coll
    ELSE CollectionAdd(CollectionAddAll(coll, chunks, n - 1), ChromaEntry(chunks[n]))

\* add_chunks: embedding or collection.add may raise, which add_chunks
\* logs and re-raises
AddChunks(coll, chunks, fails) ==
    IF chunks = <<>> THEN [raised |-> FALSE, count |-> 0, collection |-> coll]
    ELSE IF fails THEN [raised |-> TRUE, count |-> 0, collection |-> coll]
    ELSE [raised |-> FALSE, count |-> Len(chunks),
          collection |-> CollectionAddAll(coll, chunks, Len(chunks))]

\* settings.CHROMA_COLLECTION_NAME and settings.CHROMA_DB_PATH, by default
ChromaCollectionName == "real_estate_documents"
ChromaDbPath == "./chroma_db"

\* the store before any client was constructed: no collection, no id given
\* out; dropped records that a delete_collection() call of a ChromaDBClient
\* has deleted a collection
NoCollection == [exists |-> FALSE, id |-> 0, dropped |-> FALSE]

\* client.get_or_create_collection(name): the collection under the name, made
\* anew with an id of its own if there is none
GetOrCreateCollection(store) ==
    IF store.exists THEN store ELSE [store EXCEPT !.exists = TRUE, !.id = @ + 1]

\* client.delete_collection(name)
DeleteCollection(store) == [store EXCEPT !.exists = FALSE]

\* does a Collection object with this id still stand for a collection
HandleValid(store, handle) == store.exists /\ handle = store.id

\* what a call left behind for its caller; missing tells that the call
\* found the collection gone
Outcome(op, status, value, missing) ==
    [op |-> op, status |-> status, value |-> value, missing |-> missing]
NoOutcome == Outcome("none", "none", <<>>, FALSE)

\* a ChromaDBClient that is not constructed
NoClient == [handle |-> 0, pc |-> "idle", count |-> 0, ret |-> NoOutcome]

\* search: the formatted results of collection.query, n_results at most
FormattedResults(coll) ==
    {[chunk_id |-> coll[i].id,
      document_name |-> coll[i].metadata.document_name,
      chunk_text |-> coll[i].document,
      metadata |-> coll[i].metadata] : i \in 1..Len(coll)}

(***************************************************************************)
(* Tasks of pipelines/document_pipeline.py                                 *)
(***************************************************************************)
\* @task(name="parse_pdf", retries=2, ...)
ParseRetries == 2
\* chunk_document_task(..., chunk_size: int = 1000, chunk_overlap: int = 200)
DefaultChunkSize == 1000
DefaultChunkOverlap == 200

\* the PDF files and the built-in filename -> document type mapping
FileSchedule == "Project schedule document.pdf"
FileCost == "Construction planning and costing.pdf"
FileUra == "URA-Circular on GFA area definition.pdf"
FileApprovals == "construction approvals -long process chart.pdf"
FileNotes == "notes.pdf"

\* an earlier issue of the schedule, kept under the same file name in
\* another directory
FileScheduleOld == "archive/Project schedule document.pdf"

\* Path(pdf_path).name
PathName(pdf_path) == IF pdf_path = FileScheduleOld THEN FileSchedule ELSE pdf_path

DefaultDocumentTypes ==
    (FileSchedule :> "schedule") @@ (FileCost :> "cost") @@ (FileUra :> "regulatory")
        @@ (FileApprovals :> "regulatory")

\* document_types.get(pdf_file.name, "general")
DocumentTypeOf(name) ==
    IF name \in DOMAIN DefaultDocumentTypes THEN DefaultDocumentTypes[name]
    ELSE "general"

\* Path(document_name).stem
Stem(document_name) ==
    CASE document_name = FileSchedule -> "Project schedule document"
      [] document_name = FileCost -> "Construction planning and costing"
      [] document_name = FileUra -> "URA-Circular on GFA area definition"
      [] document_name = FileApprovals -> "construction approvals -long process chart"
      [] document_name = FileNotes -> "notes"

Min(a, b) == IF a <= b THEN a ELSE b

\* a slice bound as Python reads it: a negative one counts from the end,
\* and both are clipped to 0..n
SliceBound(i, n) == IF i < 0 THEN (IF n + i < 0 THEN 0 ELSE n + i) ELSE Min(i, n)

\* full_text[start:end]
Slice(text, start, end) ==
    SubSeq(text, SliceBound(start, Len(text)) + 1, SliceBound(end, Len(text)))

\* the dict appended for one window
Chunk(full_text, document_name, start, end, chunk_index) ==
    [chunk_id |-> <<Stem(document_name), "_chunk_", chunk_index>>,
     document_name |-> document_name,
     chunk_text |-> Slice(full_text, start, end),
     chunk_index |-> chunk_index,
     metadata |-> [start_char |-> start, end_char |-> end,
                   chunk_size |-> Len(Slice(full_text, start, end))]]

RECURSIVE ChunkLoop(_, _, _, _, _, _, _)
\* while start < len(full_text): ...; start = end - chunk_overlap
ChunkLoop(full_text, document_name, chunk_size, chunk_overlap, start, chunk_index, chunks) ==
    IF ~(start < Len(full_text)) THEN chunks
    ELSE ChunkLoop(full_text, document_name, chunk_size, chunk_overlap,
                   (start + chunk_size) - chunk_overlap, chunk_index + 1,
                   Append(chunks, Chunk(full_text, document_name, start,
                                        start + chunk_size, chunk_index)))

\* chunk_document_task
ChunkDocumentTask(full_text, document_name, chunk_size, chunk_overlap) ==
    IF full_text = <<>> THEN <<>>
    ELSE ChunkLoop(full_text, document_name, chunk_size, chunk_overlap, 0, 0, <<>>)

\* a parse task that is retried once more than configured
AfterParseOneMoreRetry(success, attempts) ==
    IF success THEN "extract"
    ELSE IF attempts <= ParseRetries + 1 THEN "parse"
    ELSE "except"

\* a parse task that hands a failed last attempt on to the next stage
AfterParseNoRaise(success, attempts) ==
    IF success THEN "extract"
    ELSE IF attempts <= ParseRetries THEN "parse"
    ELSE "extract"

\* where the flow goes after one run of parse_pdf_task: on, once more
\* (Prefect retries the task ParseRetries times), or to the except branch
AfterParse(success, attempts) ==
    IF success THEN "extract"
    ELSE IF attempts <= ParseRetries THEN "parse"
    ELSE "except"

\* the except branch of load_to_postgres_task: the direct insert, which
\* exists for the schedule and cost kinds only
FallbackInsert(kind, table, data, fail_at) ==
    CASE kind = "task" -> InsertProjectTasks(table, data, fail_at)
      [] kind = "cost" -> InsertCostItems(table, data, fail_at)
      [] OTHER -> [raised |-> FALSE, count |-> 0, table |-> table]

\* the dict process_document_flow returns from its try branch
SuccessResult(pdf_path, document_type, postgres_count, chroma_count, errors) ==
    Returned([success |-> TRUE, pdf_path |-> pdf_path,
              document_type |-> document_type,
              postgres_records |-> postgres_count,
              chroma_chunks |-> chroma_count,
              extraction_errors |-> errors])

\* a flow whose exception leaves it instead of being turned into a result
FailurePropagates(pdf_path, error_msg) == Raised(error_msg)

\* the dict process_document_flow returns from its except branch
FailureResult(pdf_path, error_msg) ==
    Returned([success |-> FALSE, pdf_path |-> pdf_path, error |-> error_msg])

(***************************************************************************)
(* State                                                                   *)
(***************************************************************************)
VARIABLES
    agent_call,        \* arguments of the ExtractionAgent.extract call
    agent_items,       \* that call's local extracted_data, before validation
    agent_llm_calls,   \* the llm_client.generate calls that call has made
    agent_ret,         \* what that call returned
    pg_call,           \* the latest PostgreSQLClient call: method, arguments
    pg_ret,            \* its outcome: returned value or raised
    pg_ncalls,         \* number of PostgreSQLClient calls made
    project_tasks,     \* table public.project_tasks
    cost_items,        \* table public.cost_items
    regulatory_rules,  \* table public.regulatory_rules
    dlt_project_tasks,     \* table real_estate_data.project_tasks_resource
    dlt_cost_items,        \* table real_estate_data.cost_items_resource
    dlt_regulatory_rules,  \* table real_estate_data.regulatory_rules_resource
    collection,        \* the ChromaDB collection "document_chunks"
    flow,              \* the frame of the running process_document_flow
    peer,              \* the frame of a second process_document_flow under way,
                       \* while it is not the one taking steps
    flow_runs,         \* the finished process_document_flow runs, oldest first
    pdf_files,         \* process_all_documents_flow: list(pdf_dir.glob("*.pdf"))
    results,           \* process_all_documents_flow: the results list
    dir_pc,            \* process_all_documents_flow: position
    chunker,           \* the frame of a chunk_document_task call of its own
    chroma_store,      \* the vector store: is the named collection there, and its id
    clients            \* the ChromaDBClient instances: handle, position, last outcome

agent_vars == <<agent_call, agent_items, agent_llm_calls, agent_ret>>
pg_vars == <<pg_call, pg_ret, pg_ncalls>>
table_vars == <<project_tasks, cost_items, regulatory_rules>>
dlt_vars == <<dlt_project_tasks, dlt_cost_items, dlt_regulatory_rules>>
flow_vars == <<flow, flow_runs>>
dir_vars == <<pdf_files, results, dir_pc>>
pipeline_vars == <<dlt_vars, collection, flow_vars, dir_vars>>
chunk_vars == <<chunker>>
chroma_vars == <<chroma_store, clients>>
peer_vars == <<peer>>
vars == <<agent_vars, pg_vars, table_vars, pipeline_vars, chunk_vars, chroma_vars,
          peer_vars>>

NoCall == [op |-> "none"]
NoReturn == [status |-> "none"]

AgentIdle ==
    /\ agent_call = NoCall /\ agent_items = NoReturn
    /\ agent_llm_calls = <<>> /\ agent_ret = NoReturn
PgIdle == pg_call = NoCall /\ pg_ret = NoReturn /\ pg_ncalls = 0
TablesEmpty == project_tasks = <<>> /\ cost_items = <<>> /\ regulatory_rules = <<>>

\* the locals of process_document_flow before the flow is entered
FlowIdle ==
    [pc |-> "idle", pdf_path |-> "", document_type |-> "", attempts |-> 0,
     parsed_data |-> [success |-> FALSE, full_text |-> <<>>],
     extracted_data |-> ExtractResult(<<>>, <<>>, FALSE),
     postgres_count |-> 0, chunks |-> <<>>, chroma_count |-> 0,
     error_msg |-> <<>>, trace |-> <<>>, outcome |-> NoReturn]

\* no chunk_document_task call of its own is under way
ChunkerIdle == chunker = [pc |-> "idle"]

\* no ChromaDBClient is constructed and the store holds no collection
ChromaIdle == chroma_store = NoCollection /\ clients = <<>>

DltEmpty ==
    dlt_project_tasks = <<>> /\ dlt_cost_items = <<>> /\ dlt_regulatory_rules = <<>>

PipelineIdle ==
    /\ ChunkerIdle
    /\ ChromaIdle
    /\ DltEmpty
    /\ collection = <<>>
    /\ flow = FlowIdle /\ peer = FlowIdle
    /\ flow_runs = <<>>
    /\ pdf_files = <<>>
    /\ results = <<>>
    /\ dir_pc = "idle"

(***************************************************************************)
(* SpecExtract: one ExtractionAgent.extract call                           *)
(***************************************************************************)
\* the tokens enumerated exhaustively
ExtractTokens ==
    {LB, RB, LC, RC, COMMA, COLON, STR, NUM, NULL, WORD, WS,
     "T1a", "Tbad", "Ca", "R1a"}

\* all token sequences up to MaxTokens
TokenSeqs == UNION {[1..n -> ExtractTokens] : n \in 0..MaxTokens}

\* longer well-formed responses
LongResponses ==
    {<<LB, "T1a", COMMA, "Tbad", RB>>,
     <<LB, "T1a", COMMA, "T2a", RB>>,
     <<LB, "T1a", COMMA, NUM, RB>>,
     <<WORD, WS, LB, "Ca", COMMA, "Cbad", RB, WS, WORD>>,
     <<LC, STR, COLON, LB, NUM, RB, RC>>}

\* prose an answer may put before and after its JSON
ProseBefore ==
    {<<>>, <<WORD, WS>>, <<WORD, LC, WORD, RC, WS>>, <<LB, WORD, RB, WS>>,
     <<WORD, LB, WS>>}

ProseAfter ==
    {<<>>, <<WS, WORD>>, <<WS, LC, WORD, RC>>, <<WS, LB, WORD, RB>>, <<WS, RB>>}

\* JSON arrays an answer may hold
AnswerArrays ==
    {<<LB, "T1a", RB>>, <<LB, "T1a", COMMA, "T2a", RB>>, <<LB, NUM, COMMA, NUM, RB>>}

\* answers that embed an array in prose
EmbeddedResponses ==
    {b \o a \o c : b \in ProseBefore, a \in AnswerArrays, c \in ProseAfter}

\* answers whose array mixes well-formed records, records a model rejects
\* and values that are no JSON object
MixedBatches ==
    {<<LB, "T2a", COMMA, NUM, RB>>,
     <<LB, NUM, COMMA, "T2a", RB>>,
     <<LB, "Tbad", COMMA, NUM, RB>>,
     <<LB, "Tbad", COMMA, "T2a", RB>>,
     <<LB, "T1a", COMMA, "Tbad", COMMA, "T2a", RB>>,
     <<LB, "T1a", COMMA, STR, COMMA, "T2a", RB>>,
     <<LB, "Ca", COMMA, LB, RB, COMMA, "Cb", RB>>,
     <<LB, "R1a", COMMA, NULL, RB>>,
     <<LB, "Tnoname", RB>>,
     <<LB, "T1a", COMMA, "Tneg", COMMA, "Tnoname", RB>>}

LlmBehaviours ==
    {LlmRaises}
        \cup {LlmReturns(t) : t \in TokenSeqs \cup LongResponses
                                    \cup EmbeddedResponses \cup MixedBatches}

ExtractInit ==
    /\ agent_call \in
          {[op |-> "extract", use_llm |-> TRUE, document_type |-> d, llm |-> b] :
               d \in Labels, b \in LlmBehaviours}
          \cup {[op |-> "extract", use_llm |-> FALSE, document_type |-> d,
                 llm |-> LlmRaises] : d \in Labels}
    /\ agent_items = NoReturn
    /\ agent_llm_calls = <<>>
    /\ agent_ret = NoReturn
    /\ PgIdle
    /\ TablesEmpty
    /\ PipelineIdle

\* the call runs to its return statement
ExtractCall ==
    /\ agent_ret = NoReturn
    /\ agent_items' = IF agent_call.use_llm
                      THEN ExtractWithLlm(agent_call.document_type, agent_call.llm)
                      ELSE ExtractWithRules(agent_call.document_type)
    /\ agent_llm_calls' = GenerateCalls(agent_call.use_llm, agent_call.document_type,
                                       agent_call.llm)
    /\ agent_ret' = Extract(agent_call.use_llm, agent_call.document_type,
                          agent_call.llm)
    /\ UNCHANGED <<peer, agent_call, pg_vars, table_vars, pipeline_vars, chunk_vars, chroma_vars>>

ExtractNext == ExtractCall

SpecExtract == ExtractInit /\ [][ExtractNext]_vars

(***************************************************************************)
(* SpecPg: sequences of PostgreSQLClient calls                             *)
(***************************************************************************)
TaskBatches ==
    LET a == ObjLiterals["T1a"].rec
        b == ObjLiterals["T1b"].rec
        c == ObjLiterals["T2a"].rec
    IN {<<>>, <<a>>, <<b>>, <<c>>, <<a, b>>, <<a, c>>, <<b, c>>}

CostBatches ==
    LET a == ObjLiterals["Ca"].rec
        b == ObjLiterals["Cb"].rec
    IN {<<>>, <<a>>, <<a, a>>, <<a, b>>}

RuleBatches ==
    LET a == ObjLiterals["R1a"].rec
        b == ObjLiterals["R1b"].rec
        c == ObjLiterals["R2a"].rec
    IN {<<a>>, <<b>>, <<a, c>>}

PgReturn(r) ==
    [status |-> IF r.raised THEN "raised" ELSE "returned", count |-> r.count]

PgInsertProjectTasks(tasks, fail_at) ==
    LET r == InsertProjectTasks(project_tasks, tasks, fail_at) IN
    /\ pg_ncalls < MaxPgCalls
    /\ pg_call' = [op |-> "insert_project_tasks", records |-> tasks, fail_at |-> fail_at]
    /\ pg_ret' = PgReturn(r)
    /\ project_tasks' = r.table
    /\ pg_ncalls' = pg_ncalls + 1
    /\ UNCHANGED <<peer, agent_vars, chunk_vars, chroma_vars, cost_items, regulatory_rules, pipeline_vars>>

PgInsertCostItems(items, fail_at) ==
    LET r == InsertCostItems(cost_items, items, fail_at) IN
    /\ pg_ncalls < MaxPgCalls
    /\ pg_call' = [op |-> "insert_cost_items", records |-> items, fail_at |-> fail_at]
    /\ pg_ret' = PgReturn(r)
    /\ cost_items' = r.table
    /\ pg_ncalls' = pg_ncalls + 1
    /\ UNCHANGED <<peer, agent_vars, chunk_vars, chroma_vars, project_tasks, regulatory_rules, pipeline_vars>>

PgInsertRegulatoryRules(rules, fail_at) ==
    LET r == InsertRegulatoryRules(regulatory_rules, rules, fail_at) IN
    /\ pg_ncalls < MaxPgCalls
    /\ pg_call' = [op |-> "insert_regulatory_rules", records |-> rules, fail_at |-> fail_at]
    /\ pg_ret' = PgReturn(r)
    /\ regulatory_rules' = r.table
    /\ pg_ncalls' = pg_ncalls + 1
    /\ UNCHANGED <<peer, agent_vars, chunk_vars, chroma_vars, project_tasks, cost_items, pipeline_vars>>

PgInit == AgentIdle /\ PgIdle /\ TablesEmpty /\ PipelineIdle

PgNext ==
    \/ \E tasks \in TaskBatches : \E f \in FailPoints(tasks) :
           PgInsertProjectTasks(tasks, f)
    \/ \E items \in CostBatches : \E f \in FailPoints(items) :
           PgInsertCostItems(items, f)
    \/ \E rules \in RuleBatches : \E f \in FailPoints(rules) :
           PgInsertRegulatoryRules(rules, f)

SpecPg == PgInit /\ [][PgNext]_vars

(***************************************************************************)
(* process_document_flow, one action per task run                          *)
(***************************************************************************)
\* str(e) of the exception parse_pdf_task raises, as a sequence of parts
ParseError(pdf_path) == <<"Failed to parse PDF: ", pdf_path>>

\* str(e) of an exception raised by the called operation
ErrorOf(operation) == <<operation, " failed">>

\* one run of a task, as the flow observes it
TaskRun(task, state, detail) == [task |-> task, state |-> state, detail |-> detail]

Completed(task, detail) == TaskRun(task, "Completed", detail)
Failed(task, detail) == TaskRun(task, "Failed", detail)

\* the characters on the pages of a file
FileText(pdf_path) ==
    IF pdf_path = FileScheduleOld THEN <<"o", "l", "d">> ELSE <<"t", "e", "x", "t">>

\* the texts the parser extracts: none, or the characters of a file
DocumentTexts == {<<>>, FileText(FileSchedule), FileText(FileScheduleOld)}

\* what the LLM answers for a document of the given type
FlowResponses(document_type) ==
    CASE DocKind(document_type) = "task" ->
             {<<LB, "T1a", RB>>, <<LB, "T1b", RB>>, <<LB, "T1a", COMMA, "T2a", RB>>,
              <<LB, "T1a", COMMA, "Tbad", RB>>}
      [] DocKind(document_type) = "cost" ->
             {<<LB, "Ca", RB>>, <<LB, "Ca", COMMA, "Cbad", RB>>}
      [] DocKind(document_type) = "rule" ->
             {<<LB, "R1a", RB>>, <<LB, "R1a", COMMA, "R2a", RB>>}
      [] OTHER -> {<<LB, "T1a", RB>>}

FlowLlmBehaviours(document_type) ==
    {LlmRaises, LlmReturns(<<>>)}
        \cup {LlmReturns(t) : t \in FlowResponses(document_type)}

AllFlowLlmBehaviours == UNION {FlowLlmBehaviours(d) : d \in Labels}

\* process_document_flow(pdf_path, document_type) is entered
StartFlow(pdf_path, document_type) ==
    [FlowIdle EXCEPT !.pc = "parse", !.pdf_path = pdf_path,
                     !.document_type = document_type]

\* parse_pdf_task runs once: the parser reports success with a text, or
\* reports failure; a failed run is retried while retries remain
ParsePdf(success, text) ==
    /\ flow.pc = "parse"
    /\ success \/ text = <<>>
    /\ text \in {<<>>, FileText(flow.pdf_path)}
    /\ flow' = [flow EXCEPT
                  !.attempts = @ + 1,
                  !.parsed_data = IF success
                                  THEN [success |-> TRUE, full_text |-> text]
                                  ELSE @,
                  !.pc = AfterParse(success, flow.attempts + 1),
                  !.error_msg = IF AfterParse(success, flow.attempts + 1) = "except"
                                THEN ParseError(flow.pdf_path) ELSE @,
                  !.trace = Append(@, IF success THEN Completed("parse_pdf", "")
                                      ELSE Failed("parse_pdf", ""))]
    /\ UNCHANGED <<peer, agent_vars, chunk_vars, chroma_vars, pg_vars, table_vars, dlt_vars, collection,
                   flow_runs, dir_vars>>

\* a flow that goes to the record-store load whatever was extracted
AfterExtractAlwaysLoads(frame, result) ==
    [frame EXCEPT
       !.extracted_data = result,
       !.pc = "load_postgres",
       !.trace = Append(@, Completed("extract_structured_data", ""))]

\* the frame after extract_structured_data_task returned result
AfterExtract(frame, result) ==
    [frame EXCEPT
       !.extracted_data = result,
       !.pc = IF result.extracted_data # <<>> THEN "load_postgres" ELSE "chunk",
       !.trace = Append(@, Completed("extract_structured_data", ""))]

\* the frame after a task raised what
AfterRaise(frame, task, detail, what) ==
    [frame EXCEPT !.pc = "except", !.error_msg = what,
                  !.trace = Append(@, Failed(task, detail))]

\* extract_structured_data_task, then the test on extracted_data
ExtractStructuredData(use_llm, llm) ==
    /\ flow.pc = "extract"
    /\ llm \in FlowLlmBehaviours(flow.document_type)
    /\ use_llm \/ llm = LlmRaises
    /\ flow' = IF Extract(use_llm, flow.document_type, llm).status = "returned"
               THEN AfterExtract(flow, Extract(use_llm, flow.document_type, llm).value)
               ELSE AfterRaise(flow, "extract_structured_data", "", ErrorOf("extract"))
    /\ UNCHANGED <<peer, agent_vars, chunk_vars, chroma_vars, pg_vars, table_vars, dlt_vars, collection,
                   flow_runs, dir_vars>>

\* the frame after load_to_postgres_task returned count
AfterLoadPostgres(frame, count, detail) ==
    [frame EXCEPT !.postgres_count = count, !.pc = "chunk",
                  !.trace = Append(@, Completed("load_to_postgres", detail))]

\* load_to_postgres_task, try branch: the dlt load succeeds
LoadToPostgresDlt ==
    /\ flow.pc = "load_postgres"
    /\ LET data == flow.extracted_data.extracted_data
           kind == DocKind(flow.document_type)
       IN /\ dlt_project_tasks' =
                 IF kind = "task" THEN DltAppend(dlt_project_tasks, data)
                 ELSE dlt_project_tasks
          /\ dlt_cost_items' =
                 IF kind = "cost" THEN DltAppend(dlt_cost_items, data)
                 ELSE dlt_cost_items
          /\ dlt_regulatory_rules' =
                 IF kind = "rule" THEN DltAppend(dlt_regulatory_rules, data)
                 ELSE dlt_regulatory_rules
          /\ flow' = AfterLoadPostgres(flow, IF kind = "none" THEN 0 ELSE Len(data),
                                       "dlt")
    /\ UNCHANGED <<peer, agent_vars, chunk_vars, chroma_vars, pg_vars, table_vars, collection, flow_runs, dir_vars>>

\* load_to_postgres_task, except branch: the dlt load raised and the data
\* goes through PostgreSQLClient, whose call fails at fail_at (0: never)
LoadToPostgresFallback(fail_at) ==
    /\ flow.pc = "load_postgres"
    /\ DocKind(flow.document_type) # "none"
    /\ LET data == flow.extracted_data.extracted_data
           kind == DocKind(flow.document_type)
       IN /\ fail_at \in FailPoints(data)
          /\ kind = "rule" => fail_at = 0
          /\ project_tasks' =
                 IF kind = "task"
                 THEN FallbackInsert(kind, project_tasks, data, fail_at).table
                 ELSE project_tasks
          /\ cost_items' =
                 IF kind = "cost"
                 THEN FallbackInsert(kind, cost_items, data, fail_at).table
                 ELSE cost_items
          /\ flow' =
                 IF FallbackInsert(kind, <<>>, data, fail_at).raised
                 THEN AfterRaise(flow, "load_to_postgres", "fallback", ErrorOf("insert"))
                 ELSE AfterLoadPostgres(flow,
                          FallbackInsert(kind, <<>>, data, fail_at).count, "fallback")
    /\ UNCHANGED <<peer, agent_vars, chunk_vars, chroma_vars, pg_vars, regulatory_rules, dlt_vars, collection,
                   flow_runs, dir_vars>>

\* chunk_document_task with its default sizes, then the test on chunks
ChunkDocument ==
    /\ flow.pc = "chunk"
    /\ flow' = [flow EXCEPT
                  !.chunks = ChunkDocumentTask(flow.parsed_data.full_text,
                                 PathName(flow.pdf_path), DefaultChunkSize,
                                 DefaultChunkOverlap),
                  !.pc = IF ChunkDocumentTask(flow.parsed_data.full_text,
                                 PathName(flow.pdf_path), DefaultChunkSize,
                                 DefaultChunkOverlap)
                            # <<>>
                         THEN "load_chromadb" ELSE "return",
                  !.trace = Append(@, Completed("chunk_document", ""))]
    /\ UNCHANGED <<peer, agent_vars, chunk_vars, chroma_vars, pg_vars, table_vars, dlt_vars, collection,
                   flow_runs, dir_vars>>

\* load_to_chromadb_task, first call to the store: ChromaDBClient(), whose
\* constructor gets or creates the collection
LoadToChromadbConstruct ==
    /\ flow.pc = "load_chromadb"
    /\ chroma_store' = GetOrCreateCollection(chroma_store)
    /\ flow' = [flow EXCEPT !.pc = "add_chunks"]
    /\ UNCHANGED <<peer, agent_vars, chunk_vars, clients, pg_vars, table_vars, dlt_vars,
                   collection, flow_runs, dir_vars>>

\* load_to_chromadb_task, second call to the store: add_chunks returns the
\* count or raises
LoadToChromadb(fails) ==
    /\ flow.pc = "add_chunks"
    /\ collection' = AddChunks(collection, flow.chunks, fails).collection
    /\ flow' = IF AddChunks(collection, flow.chunks, fails).raised
               THEN AfterRaise(flow, "load_to_chromadb", "", ErrorOf("add_chunks"))
               ELSE [flow EXCEPT
                       !.chroma_count = AddChunks(collection, flow.chunks, fails).count,
                       !.pc = "return",
                       !.trace = Append(@, Completed("load_to_chromadb", ""))]
    /\ UNCHANGED <<peer, agent_vars, chunk_vars, chroma_vars, pg_vars, table_vars, dlt_vars,
                   flow_runs, dir_vars>>

\* the frame once the flow has left with outcome
Finished(frame, outcome) == [frame EXCEPT !.pc = "done", !.outcome = outcome]

\* what is kept of a finished run: its arguments, the records it extracted
\* and what it returned
RunOf(frame) ==
    [pdf_path |-> frame.pdf_path, document_type |-> frame.document_type,
     extracted_data |-> frame.extracted_data.extracted_data,
     outcome |-> frame.outcome]

\* the end of the try branch: the result dict is built and returned
FlowReturn ==
    /\ flow.pc = "return"
    /\ flow' = Finished(flow, SuccessResult(flow.pdf_path, flow.document_type,
                                  flow.postgres_count, flow.chroma_count,
                                  flow.extracted_data.errors))
    /\ flow_runs' = Append(flow_runs, RunOf(flow'))
    /\ UNCHANGED <<peer, agent_vars, chunk_vars, chroma_vars, pg_vars, table_vars, dlt_vars, collection, dir_vars>>

\* the except branch: notify_failure_task, then the failure dict
FlowExcept ==
    /\ flow.pc = "except"
    /\ flow' = Finished([flow EXCEPT !.trace = Append(@, Completed("notify_failure", ""))],
                        FailureResult(flow.pdf_path, flow.error_msg))
    /\ flow_runs' = Append(flow_runs, RunOf(flow'))
    /\ UNCHANGED <<peer, agent_vars, chunk_vars, chroma_vars, pg_vars, table_vars, dlt_vars, collection, dir_vars>>

\* the task runs of the flow that is under way
FlowStep ==
    \/ \E success \in BOOLEAN : \E text \in DocumentTexts : ParsePdf(success, text)
    \/ \E use_llm \in BOOLEAN : \E llm \in AllFlowLlmBehaviours :
           ExtractStructuredData(use_llm, llm)
    \/ LoadToPostgresDlt
    \/ \E fail_at \in 0..3 : LoadToPostgresFallback(fail_at)
    \/ ChunkDocument
    \/ LoadToChromadbConstruct
    \/ \E fails \in BOOLEAN : LoadToChromadb(fails)
    \/ FlowReturn
    \/ FlowExcept

(***************************************************************************)
(* Spec: process_document_flow invoked one call after the other, as the    *)
(* upload view does                                                        *)
(***************************************************************************)
FlowInputs ==
    {<<f, DocumentTypeOf(f)>> : f \in {FileSchedule, FileCost, FileApprovals, FileNotes}}

\* a caller invokes process_document_flow
CallFlow(pdf_path, document_type) ==
    /\ flow.pc \in {"idle", "done"}
    /\ Len(flow_runs) < MaxRuns
    /\ flow' = StartFlow(pdf_path, document_type)
    /\ UNCHANGED <<peer, agent_vars, chunk_vars, chroma_vars, pg_vars, table_vars, dlt_vars, collection,
                   flow_runs, dir_vars>>

Init == AgentIdle /\ PgIdle /\ TablesEmpty /\ PipelineIdle

Next ==
    \/ \E input \in FlowInputs : CallFlow(input[1], input[2])
    \/ FlowStep

Spec == Init /\ [][Next]_vars

(***************************************************************************)
(* SpecDir: one process_all_documents_flow run with the default mapping    *)
(***************************************************************************)
DirFiles == {FileSchedule, FileApprovals, FileNotes}

\* the listings glob can produce: distinct files in any order
Listings ==
    {l \in UNION {[1..n -> DirFiles] : n \in 0..MaxDocs} :
        \A i, j \in 1..Len(l) : i # j => l[i] # l[j]}

\* for pdf_file in pdf_files: process_document_flow(str(pdf_file), doc_type)
DirIterate ==
    /\ dir_pc = "loop"
    /\ Len(results) < Len(pdf_files)
    /\ flow' = StartFlow(pdf_files[Len(results) + 1],
                         DocumentTypeOf(pdf_files[Len(results) + 1]))
    /\ dir_pc' = "call"
    /\ UNCHANGED <<peer, agent_vars, chunk_vars, chroma_vars, pg_vars, table_vars, dlt_vars, collection,
                   flow_runs, pdf_files, results>>

\* the call returned: results.append(result); had it raised, the exception
\* would leave process_all_documents_flow
DirCollect ==
    /\ dir_pc = "call"
    /\ flow.pc = "done"
    /\ IF flow.outcome.status = "returned"
       THEN /\ results' = Append(results, flow.outcome.value)
            /\ dir_pc' = "loop"
       ELSE /\ results' = results
            /\ dir_pc' = "raised"
    /\ UNCHANGED <<peer, agent_vars, chunk_vars, chroma_vars, pg_vars, table_vars, dlt_vars, collection,
                   flow_vars, pdf_files>>

\* the loop is over: return results
DirReturn ==
    /\ dir_pc = "loop"
    /\ Len(results) = Len(pdf_files)
    /\ dir_pc' = "done"
    /\ UNCHANGED <<peer, agent_vars, chunk_vars, chroma_vars, pg_vars, table_vars, dlt_vars, collection,
                   flow_vars, pdf_files, results>>

DirInit ==
    /\ AgentIdle /\ PgIdle /\ TablesEmpty /\ DltEmpty /\ ChunkerIdle /\ ChromaIdle
    /\ collection = <<>>
    /\ flow = FlowIdle /\ peer = FlowIdle
    /\ flow_runs = <<>>
    /\ pdf_files \in Listings
    /\ results = <<>>
    /\ dir_pc = "loop"

DirNext ==
    \/ DirIterate
    \/ FlowStep
    \/ DirCollect
    \/ DirReturn

SpecDir == DirInit /\ [][DirNext]_vars

(***************************************************************************)
(* SpecChunk: one chunk_document_task call, one action per loop iteration. *)
(* A character of the text is its position, so that a window's text tells  *)
(* where it was cut.                                                       *)
(***************************************************************************)

\* a document text of n characters
TextOfLen(n) == [i \in 1..n |-> i]

\* the arguments of the calls that are followed: every small text with every
\* small size and overlap, and a 2500 character text with the defaults
ChunkArgs ==
    {[len |-> n, chunk_size |-> s, chunk_overlap |-> o] :
        n \in 0..MaxTextLen, s \in 1..MaxChunkSize, o \in 0..(MaxChunkSize + 1)}
    \cup {[len |-> 2500, chunk_size |-> DefaultChunkSize,
           chunk_overlap |-> DefaultChunkOverlap]}

\* the frame on entry
ChunkFrame(pc, full_text, chunk_size, chunk_overlap, start, chunk_index, chunks) ==
    [pc |-> pc, full_text |-> full_text, document_name |-> FileNotes,
     chunk_size |-> chunk_size, chunk_overlap |-> chunk_overlap,
     start |-> start, chunk_index |-> chunk_index, chunks |-> chunks]

\* if not full_text: return []; chunks = []; start = 0; chunk_index = 0
ChunkEnter ==
    /\ chunker.pc = "call"
    /\ chunker' = IF chunker.full_text = <<>>
                  THEN [chunker EXCEPT !.pc = "returned"]
                  ELSE [chunker EXCEPT !.pc = "loop"]
    /\ UNCHANGED <<peer, agent_vars, pg_vars, table_vars, pipeline_vars, chroma_vars>>

\* one iteration of while start < len(full_text)
ChunkIterate ==
    /\ chunker.pc = "loop"
    /\ chunker.start < Len(chunker.full_text)
    /\ Len(chunker.chunks) < MaxChunkIters
    /\ chunker' = [chunker EXCEPT
           !.chunks = Append(@, Chunk(chunker.full_text, chunker.document_name,
                                      chunker.start,
                                      chunker.start + chunker.chunk_size,
                                      chunker.chunk_index)),
           !.start = (chunker.start + chunker.chunk_size) - chunker.chunk_overlap,
           !.chunk_index = @ + 1]
    /\ UNCHANGED <<peer, agent_vars, pg_vars, table_vars, pipeline_vars, chroma_vars>>

\* the loop test fails: return chunks
ChunkReturn ==
    /\ chunker.pc = "loop"
    /\ ~(chunker.start < Len(chunker.full_text))
    /\ chunker' = [chunker EXCEPT !.pc = "returned"]
    /\ UNCHANGED <<peer, agent_vars, pg_vars, table_vars, pipeline_vars, chroma_vars>>

ChunkInit ==
    /\ AgentIdle /\ PgIdle /\ TablesEmpty
    /\ DltEmpty /\ collection = <<>> /\ flow = FlowIdle /\ peer = FlowIdle /\ flow_runs = <<>>
    /\ pdf_files = <<>> /\ results = <<>> /\ dir_pc = "idle"
    /\ ChromaIdle
    /\ chunker \in {ChunkFrame("call", TextOfLen(a.len), a.chunk_size,
                               a.chunk_overlap, 0, 0, <<>>) : a \in ChunkArgs}

ChunkNext == ChunkEnter \/ ChunkIterate \/ ChunkReturn

SpecChunk == ChunkInit /\ [][ChunkNext]_vars

(***************************************************************************)
(* SpecChroma: ChromaDBClient instances on one store and collection name.  *)
(* A call of the chromadb client is one step; clear_all_data, which makes  *)
(* three such calls, is three steps, and calls of other instances may fall *)
(* between them.                                                           *)
(***************************************************************************)

\* the instances: the module-level client of endpoints/views.py and the
\* client a load_to_chromadb task or clear_databases.py constructs
ClientIds == {"c1", "c2"}

\* two versions of the text of one document, and the text of another
NotesFirstText == <<"a", "b", "c">>
NotesSecondText == <<"x", "y", "z">>
CostText == <<"k">>

\* the chunk lists handed to add_chunks: none, and those chunk_document_task
\* cuts from the texts with size 2 and no overlap
ChunkBatches ==
    {<<>>,
     ChunkDocumentTask(NotesFirstText, FileNotes, 2, 0),
     ChunkDocumentTask(NotesSecondText, FileNotes, 2, 0),
     ChunkDocumentTask(CostText, FileCost, 2, 0)}

\* the instances inside clear_all_data, between count() and the recreation
MidClear == {c \in ClientIds : clients[c].pc # "idle"}

\* the instance has been constructed and is in no call
Ready(c) == clients[c].pc = "idle" /\ clients[c].handle # 0

\* ChromaDBClient(): self.collection = client.get_or_create_collection(...)
ChromaConstruct(c) ==
    /\ clients[c].pc = "idle"
    /\ chroma_store' = GetOrCreateCollection(chroma_store)
    /\ collection' = IF chroma_store.exists THEN collection ELSE <<>>
    /\ clients' = [clients EXCEPT ![c] =
                      [NoClient EXCEPT !.handle = GetOrCreateCollection(chroma_store).id]]
    /\ UNCHANGED <<peer, agent_vars, chunk_vars, pg_vars, table_vars, dlt_vars,
                   flow_vars, dir_vars>>

\* add_chunks(chunks); embed_fails: the embedding model raises
ChromaAddChunks(c, chunks, embed_fails) ==
    /\ Ready(c)
    /\ LET gone == ~HandleValid(chroma_store, clients[c].handle)
           call == AddChunks(collection, chunks, embed_fails \/ gone)
       IN  /\ collection' = call.collection
           /\ clients' = [clients EXCEPT ![c].ret =
                  IF call.raised
                  THEN Outcome("add_chunks", "raised", chunks, ~embed_fails /\ gone)
                  ELSE Outcome("add_chunks", "returned", chunks, FALSE)]
    /\ UNCHANGED <<peer, agent_vars, chunk_vars, pg_vars, table_vars, dlt_vars,
                   flow_vars, dir_vars, chroma_store>>

\* search(query): every exception is logged and [] returned
ChromaSearch(c, embed_fails) ==
    /\ Ready(c)
    /\ LET gone == ~HandleValid(chroma_store, clients[c].handle)
       IN  clients' = [clients EXCEPT ![c].ret =
               IF embed_fails \/ gone
               THEN Outcome("search", "returned", {}, ~embed_fails /\ gone)
               ELSE Outcome("search", "returned", FormattedResults(collection), FALSE)]
    /\ UNCHANGED <<peer, agent_vars, chunk_vars, pg_vars, table_vars, dlt_vars,
                   flow_vars, dir_vars, chroma_store, collection>>

\* get_collection_stats(): an exception is logged and {} returned
ChromaGetCollectionStats(c) ==
    /\ Ready(c)
    /\ clients' = [clients EXCEPT ![c].ret =
           IF HandleValid(chroma_store, clients[c].handle)
           THEN Outcome("get_collection_stats", "returned",
                        [collection_name |-> ChromaCollectionName,
                         total_chunks |-> Len(collection),
                         db_path |-> ChromaDbPath], FALSE)
           ELSE Outcome("get_collection_stats", "returned", <<>>, TRUE)]
    /\ UNCHANGED <<peer, agent_vars, chunk_vars, pg_vars, table_vars, dlt_vars,
                   flow_vars, dir_vars, chroma_store, collection>>

\* delete_collection(): self.client.delete_collection(name); an exception
\* (there is no collection of the name) is logged, and nothing is returned
ChromaDeleteCollection(c) ==
    /\ Ready(c)
    /\ chroma_store.id + Cardinality(MidClear) < MaxCollections
    /\ chroma_store' = IF chroma_store.exists
                       THEN [DeleteCollection(chroma_store) EXCEPT !.dropped = TRUE]
                       ELSE chroma_store
    /\ collection' = <<>>
    /\ clients' = [clients EXCEPT ![c].ret =
           Outcome("delete_collection", "returned", PyNone, ~chroma_store.exists)]
    /\ UNCHANGED <<peer, agent_vars, chunk_vars, pg_vars, table_vars, dlt_vars,
                   flow_vars, dir_vars>>

\* clear_all_data, first call: count = self.collection.count(); an empty
\* collection is left as it is
ChromaClearCount(c) ==
    /\ Ready(c)
    /\ chroma_store.id + Cardinality(MidClear) < MaxCollections
    /\ clients' = [clients EXCEPT ![c] =
           IF ~HandleValid(chroma_store, clients[c].handle)
           THEN [@ EXCEPT !.ret = Outcome("clear_all_data", "raised", <<>>, TRUE)]
           ELSE IF Len(collection) = 0
           THEN [@ EXCEPT !.ret = Outcome("clear_all_data", "returned",
                                          [chunks_deleted |-> 0], FALSE)]
           ELSE [@ EXCEPT !.pc = "delete", !.count = Len(collection),
                          !.ret = NoOutcome]]
    /\ UNCHANGED <<peer, agent_vars, chunk_vars, pg_vars, table_vars, dlt_vars,
                   flow_vars, dir_vars, chroma_store, collection>>

\* clear_all_data, second call: self.client.delete_collection(name), which
\* raises if there is no collection of the name
ChromaClearDelete(c) ==
    /\ clients[c].pc = "delete"
    /\ IF chroma_store.exists
       THEN /\ chroma_store' = DeleteCollection(chroma_store)
            /\ collection' = <<>>
            /\ clients' = [clients EXCEPT ![c].pc = "recreate"]
       ELSE /\ clients' = [clients EXCEPT ![c] =
                   [@ EXCEPT !.pc = "idle", !.count = 0,
                             !.ret = Outcome("clear_all_data", "raised", <<>>, TRUE)]]
            /\ UNCHANGED <<chroma_store, collection>>
    /\ UNCHANGED <<peer, agent_vars, chunk_vars, pg_vars, table_vars, dlt_vars,
                   flow_vars, dir_vars>>

\* clear_all_data, third call: self.collection = get_or_create_collection(...)
\* and return {"chunks_deleted": count}
ChromaClearRecreate(c) ==
    /\ clients[c].pc = "recreate"
    /\ chroma_store' = GetOrCreateCollection(chroma_store)
    /\ collection' = IF chroma_store.exists THEN collection ELSE <<>>
    /\ clients' = [clients EXCEPT ![c] =
           [handle |-> GetOrCreateCollection(chroma_store).id, pc |-> "idle",
            count |-> 0,
            ret |-> Outcome("clear_all_data", "returned",
                            [chunks_deleted |-> clients[c].count], FALSE)]]
    /\ UNCHANGED <<peer, agent_vars, chunk_vars, pg_vars, table_vars, dlt_vars,
                   flow_vars, dir_vars>>

ChromaInit ==
    /\ AgentIdle /\ PgIdle /\ TablesEmpty /\ DltEmpty /\ ChunkerIdle
    /\ flow = FlowIdle /\ peer = FlowIdle /\ flow_runs = <<>>
    /\ pdf_files = <<>> /\ results = <<>> /\ dir_pc = "idle"
    /\ collection = <<>>
    /\ chroma_store = NoCollection
    /\ clients = [c \in ClientIds |-> NoClient]

ChromaNext ==
    \E c \in ClientIds :
        \/ ChromaConstruct(c)
        \/ \E chunks \in ChunkBatches, embed_fails \in BOOLEAN :
               ChromaAddChunks(c, chunks, embed_fails)
        \/ \E embed_fails \in BOOLEAN : ChromaSearch(c, embed_fails)
        \/ ChromaGetCollectionStats(c)
        \/ ChromaDeleteCollection(c)
        \/ ChromaClearCount(c)
        \/ ChromaClearDelete(c)
        \/ ChromaClearRecreate(c)

SpecChroma == ChromaInit /\ [][ChromaNext]_vars

(***************************************************************************)
(* SpecStore: the record store under load_to_postgres_task calls on either *)
(* write path, clear_all_data and the two queries, one call after another  *)
(***************************************************************************)

\* the validated records a load is handed, by document type
StoreLoads ==
    {[document_type |-> "schedule", data |-> b] :
         b \in {<<ObjLiterals["T1a"].rec>>,
                <<ObjLiterals["T1b"].rec, ObjLiterals["T2a"].rec>>}}
    \cup {[document_type |-> "cost", data |-> b] :
         b \in {<<ObjLiterals["Ca"].rec>>,
                <<ObjLiterals["Ca"].rec, ObjLiterals["Cb"].rec>>}}
    \cup {[document_type |-> "regulatory", data |-> <<ObjLiterals["R1a"].rec>>]}

\* the limits the queries are called with
QueryLimits == {1, DefaultQueryLimit}

\* every table of the database, by name
AllTables ==
    [project_tasks |-> project_tasks, cost_items |-> cost_items,
     regulatory_rules |-> regulatory_rules,
     dlt_project_tasks |-> dlt_project_tasks, dlt_cost_items |-> dlt_cost_items,
     dlt_regulatory_rules |-> dlt_regulatory_rules]

\* load_to_postgres_task(extracted_data, document_type), try branch: the
\* dlt load succeeds and the task returns len(data)
StoreLoadDlt(load) ==
    /\ pg_ncalls < MaxStoreCalls
    /\ LET kind == DocKind(load.document_type) IN
       /\ dlt_project_tasks' =
              IF kind = "task" THEN DltAppend(dlt_project_tasks, load.data)
              ELSE dlt_project_tasks
       /\ dlt_cost_items' =
              IF kind = "cost" THEN DltAppend(dlt_cost_items, load.data)
              ELSE dlt_cost_items
       /\ dlt_regulatory_rules' =
              IF kind = "rule" THEN DltAppend(dlt_regulatory_rules, load.data)
              ELSE dlt_regulatory_rules
    /\ pg_call' = [op |-> "load_to_postgres_task", path |-> "dlt",
                   document_type |-> load.document_type, data |-> load.data]
    /\ pg_ret' = Returned(Len(load.data))
    /\ pg_ncalls' = pg_ncalls + 1
    /\ UNCHANGED <<peer, agent_vars, chunk_vars, chroma_vars, table_vars, collection,
                   flow_vars, dir_vars>>

\* load_to_postgres_task, except branch: the dlt load raised and the data
\* goes through PostgreSQLClient, whose call fails at fail_at (0: never)
StoreLoadFallback(load, fail_at) ==
    /\ pg_ncalls < MaxStoreCalls
    /\ fail_at \in FailPoints(load.data)
    /\ DocKind(load.document_type) = "rule" => fail_at = 0
    /\ LET kind == DocKind(load.document_type) IN
       /\ project_tasks' =
              IF kind = "task"
              THEN FallbackInsert(kind, project_tasks, load.data, fail_at).table
              ELSE project_tasks
       /\ cost_items' =
              IF kind = "cost"
              THEN FallbackInsert(kind, cost_items, load.data, fail_at).table
              ELSE cost_items
       /\ pg_ret' =
              IF FallbackInsert(kind, <<>>, load.data, fail_at).raised
              THEN Raised(ErrorOf("insert"))
              ELSE Returned(FallbackInsert(kind, <<>>, load.data, fail_at).count)
    /\ pg_call' = [op |-> "load_to_postgres_task", path |-> "fallback",
                   document_type |-> load.document_type, data |-> load.data]
    /\ pg_ncalls' = pg_ncalls + 1
    /\ UNCHANGED <<peer, agent_vars, chunk_vars, chroma_vars, regulatory_rules, dlt_vars,
                   collection, flow_vars, dir_vars>>

\* PostgreSQLClient.clear_all_data(); fails: the session raises and is
\* rolled back
StoreClearAllData(fails) ==
    /\ pg_ncalls < MaxStoreCalls
    /\ project_tasks' = ClearAllData(AllTables, fails).tables.project_tasks
    /\ cost_items' = ClearAllData(AllTables, fails).tables.cost_items
    /\ regulatory_rules' = ClearAllData(AllTables, fails).tables.regulatory_rules
    /\ dlt_project_tasks' = ClearAllData(AllTables, fails).tables.dlt_project_tasks
    /\ dlt_cost_items' = ClearAllData(AllTables, fails).tables.dlt_cost_items
    /\ dlt_regulatory_rules' =
           ClearAllData(AllTables, fails).tables.dlt_regulatory_rules
    /\ pg_call' = [op |-> "clear_all_data"]
    /\ pg_ret' = IF ClearAllData(AllTables, fails).raised
                 THEN Raised(ErrorOf("clear_all_data"))
                 ELSE Returned(ClearAllData(AllTables, fails).deleted)
    /\ pg_ncalls' = pg_ncalls + 1
    /\ UNCHANGED <<peer, agent_vars, chunk_vars, chroma_vars, collection, flow_vars, dir_vars>>

\* PostgreSQLClient.query_project_tasks(limit); dlt_fails: the SELECT on
\* the dlt table raises; query_fails: the SQLAlchemy query raises
StoreQueryProjectTasks(limit, dlt_picked, picked, dlt_fails, query_fails) ==
    /\ pg_ncalls < MaxStoreCalls
    /\ dlt_picked \in LimitChoices(dlt_project_tasks, limit)
    /\ picked \in LimitChoices(project_tasks, limit)
    /\ pg_call' = [op |-> "query_project_tasks", limit |-> limit,
                   dlt_fails |-> dlt_fails, query_fails |-> query_fails]
    /\ pg_ret' = Returned(QueryRows("task", dlt_project_tasks, project_tasks,
                                    dlt_picked, picked, dlt_fails, query_fails))
    /\ pg_ncalls' = pg_ncalls + 1
    /\ UNCHANGED <<peer, agent_vars, chunk_vars, chroma_vars, table_vars, pipeline_vars>>

\* PostgreSQLClient.query_cost_items(limit), with the same failures
StoreQueryCostItems(limit, dlt_picked, picked, dlt_fails, query_fails) ==
    /\ pg_ncalls < MaxStoreCalls
    /\ dlt_picked \in LimitChoices(dlt_cost_items, limit)
    /\ picked \in LimitChoices(cost_items, limit)
    /\ pg_call' = [op |-> "query_cost_items", limit |-> limit,
                   dlt_fails |-> dlt_fails, query_fails |-> query_fails]
    /\ pg_ret' = Returned(QueryRows("cost", dlt_cost_items, cost_items,
                                    dlt_picked, picked, dlt_fails, query_fails))
    /\ pg_ncalls' = pg_ncalls + 1
    /\ UNCHANGED <<peer, agent_vars, chunk_vars, chroma_vars, table_vars, pipeline_vars>>

\* the positions a LIMIT may pick in a table of the model
Positions == SUBSET (1..(2 * MaxStoreCalls))

StoreInit == AgentIdle /\ PgIdle /\ TablesEmpty /\ PipelineIdle

StoreNext ==
    \/ \E load \in StoreLoads : StoreLoadDlt(load)
    \/ \E load \in StoreLoads : \E fail_at \in 0..3 : StoreLoadFallback(load, fail_at)
    \/ \E fails \in BOOLEAN : StoreClearAllData(fails)
    \/ \E limit \in QueryLimits : \E dlt_picked, picked \in Positions :
           \E dlt_fails, query_fails \in BOOLEAN :
               StoreQueryProjectTasks(limit, dlt_picked, picked, dlt_fails, query_fails)
    \/ \E limit \in QueryLimits : \E dlt_picked, picked \in Positions :
           \E dlt_fails, query_fails \in BOOLEAN :
               StoreQueryCostItems(limit, dlt_picked, picked, dlt_fails, query_fails)

SpecStore == StoreInit /\ [][StoreNext]_vars

(***************************************************************************)
(* SpecPair: two process_document_flow runs on different documents under   *)
(* way at once.  Each task run is one step; between task runs the other    *)
(* flow may take over.                                                     *)
(***************************************************************************)

\* the documents the two callers pass, each with its type
PairInputs ==
    {<<FileSchedule, "schedule">>, <<FileScheduleOld, "schedule">>,
     <<FileCost, "cost">>}

\* two callers invoke process_document_flow on different documents
PairCall(first, second) ==
    /\ flow.pc = "idle" /\ peer.pc = "idle"
    /\ first[1] # second[1]
    /\ flow' = StartFlow(first[1], first[2])
    /\ peer' = StartFlow(second[1], second[2])
    /\ UNCHANGED <<agent_vars, chunk_vars, chroma_vars, pg_vars, table_vars, dlt_vars,
                   collection, flow_runs, dir_vars>>

\* the flow that was waiting runs its next task; the other one waits
PairSwitch ==
    /\ flow.pc # "idle"
    /\ peer.pc \notin {"idle", "done"}
    /\ flow' = peer
    /\ peer' = flow
    /\ UNCHANGED <<agent_vars, chunk_vars, chroma_vars, pg_vars, table_vars, dlt_vars,
                   collection, flow_runs, dir_vars>>

PairInit == AgentIdle /\ PgIdle /\ TablesEmpty /\ PipelineIdle

PairNext ==
    \/ \E first, second \in PairInputs : PairCall(first, second)
    \/ PairSwitch
    \/ FlowStep

SpecPair == PairInit /\ [][PairNext]_vars

(***************************************************************************)
(* Properties of ExtractionAgent.extract (SpecExtract)                     *)
(***************************************************************************)
\* the call reached the LLM: LLM extraction is on and the label matched a keyword
LlmCalled ==
    /\ agent_call.use_llm
    /\ DocKind(agent_call.document_type) # "none"

\* the LLM raised, or returned empty or blank text
LlmFailed ==
    \/ agent_call.llm.raises
    \/ IsBlank(agent_call.llm.text)

\* C2: when the LLM returns empty or blank text or raises, extract returns
\* extracted_data = [] together with a non-empty errors list recording the
\* failure.
C2_LlmFailureRecorded ==
    (agent_ret.status # "none" /\ LlmCalled /\ LlmFailed)
        => /\ agent_ret.status = "returned"
           /\ agent_ret.value.extracted_data = <<>>
           /\ agent_ret.value.errors # <<>>

\* the records the validator can hand on
ModelRecords == {ObjLiterals[k].rec : k \in DOMAIN ObjLiterals}

\* C3: extract never raises; for every label and every LLM behaviour it
\* returns a result with exactly the keys extracted_data, errors and success,
\* extracted_data being a list (of validated records) and success a boolean.
C3_ExtractAlwaysReturns ==
    agent_ret.status # "none"
        => /\ agent_ret.status = "returned"
           /\ DOMAIN agent_ret.value = {"extracted_data", "errors", "success"}
           /\ agent_ret.value.extracted_data \in Seq(ModelRecords)
           /\ agent_ret.value.success \in BOOLEAN

\* C3 witness: the LLM answered with a JSON array that holds a number, and
\* extract returned a structured result reporting the failure
C3_Witness ==
    /\ agent_call.use_llm
    /\ agent_call.document_type = "schedule"
    /\ ~agent_call.llm.raises
    /\ agent_call.llm.text = <<LB, NUM, RB>>
    /\ agent_ret.status = "returned"
    /\ agent_ret.value.extracted_data = <<>>
    /\ agent_ret.value.success = FALSE

\* the call reached the response parser: the LLM returned a text
ParserRan ==
    /\ agent_ret.status # "none"
    /\ LlmCalled
    /\ ~agent_call.llm.raises

\* the spans of the text that spell a JSON array
ArraySpans(text) ==
    {span \in (1..Len(text)) \X (1..Len(text)) :
        /\ span[1] < span[2]
        /\ text[span[1]] = LB
        /\ text[span[2]] = RB
        /\ JsonLoads(SubSeq(text, span[1], span[2])).ok}

\* the spans of ArraySpans that lie in no other one
OuterArraySpans(text) ==
    {span \in ArraySpans(text) :
        \A other \in ArraySpans(text) :
            (other[1] <= span[1] /\ span[2] <= other[2]) => other = span}

\* C11: when the response holds one JSON array, whatever prose surrounds it
\* (square brackets and braces included), the parser returns exactly the
\* elements of that array.
C11_EmbeddedArrayExtracted ==
    ParserRan =>
        \A span \in OuterArraySpans(agent_call.llm.text) :
            OuterArraySpans(agent_call.llm.text) = {span}
                => agent_items =
                       JsonLoads(SubSeq(agent_call.llm.text, span[1], span[2])).val

\* the response is a single JSON object and nothing else
SingleObjectResponse ==
    /\ JsonLoads(agent_call.llm.text).ok
    /\ JsonLoads(agent_call.llm.text).val.t = "obj"

\* C12: when the response is only a single JSON object, an object whose
\* values hold nested arrays included, the parser returns a one-element
\* sequence containing that object.
C12_SingleObjectWrapped ==
    (ParserRan /\ SingleObjectResponse)
        => agent_items = JArr(<<JsonLoads(agent_call.llm.text).val>>)

\* none of the three strategies yields JSON for the response
NoStrategyYields ==
    /\ ~JsonLoads(ArrayMatch(agent_call.llm.text).text).ok
    /\ ~JsonLoads(Strip(agent_call.llm.text)).ok
    /\ ~JsonLoads(ObjectMatch(agent_call.llm.text).text).ok

\* C13: when no strategy yields JSON for the response, the parser returns
\* an empty sequence and does not raise: extract goes on with no items and
\* reports no exception.
C13_MalformedResponseYieldsEmpty ==
    (ParserRan /\ NoStrategyYields)
        => /\ agent_items = JArr(<<>>)
           /\ agent_ret = Returned(ExtractResult(<<>>, <<>>, TRUE))

\* C13 witness: the response is an array of numbers cut off after the
\* first comma, and the parser returned the empty sequence.
C13_Witness ==
    /\ ParserRan
    /\ agent_call.llm.text = <<LB, NUM, COMMA>>
    /\ NoStrategyYields
    /\ agent_items = JArr(<<>>)

\* the elements of a sequence
Range(seq) == {seq[i] : i \in 1..Len(seq)}

\* extract validated a list of candidates against the model of kind
ValidatorRan(kind) ==
    /\ agent_ret.status = "returned"
    /\ DocKind(agent_call.document_type) = kind
    /\ agent_items.t = "arr"

\* C14: every ScheduleTask candidate whose finish date is earlier than its
\* start date is rejected with an error string and is absent from the valid
\* output; a candidate whose finish date equals its start date is accepted
\* and present in the valid output.
C14_FinishBeforeStartRejected ==
    ValidatorRan("task") =>
        \A i \in 1..Len(agent_items.items) :
            (agent_items.items[i].t = "obj" /\ agent_items.items[i].kind = "task") =>
                /\ agent_items.items[i].rec.finish_date
                       < agent_items.items[i].rec.start_date
                     => /\ agent_items.items[i].rec
                               \notin Range(agent_ret.value.extracted_data)
                        /\ ValidationError("task",
                               ToString(agent_items.items[i].rec.task_id))
                               \in Range(agent_ret.value.errors)
                /\ (/\ agent_items.items[i].rec.finish_date
                           = agent_items.items[i].rec.start_date
                    /\ agent_items.items[i].rec.duration_days >= 0)
                     => agent_items.items[i].rec
                            \in Range(agent_ret.value.extracted_data)

\* the candidate is a mapping the model of kind accepts
WellFormed(kind, item) == item.t = "obj" /\ ModelAccepts(kind, item)

\* the records of the well-formed candidates, in order
WellFormedRecords(kind, items) ==
    [i \in 1..Len(SelectSeq(items, LAMBDA item : WellFormed(kind, item))) |->
        SelectSeq(items, LAMBDA item : WellFormed(kind, item))[i].rec]

\* C15: validation is per item and never aborts the batch: for every
\* candidate sequence, one holding items that are no key-value mapping
\* included, the valid output holds every well-formed item, in order, and the
\* errors hold exactly one string per failing item.
C15_ValidationPerItem ==
    \A kind \in {"task", "cost", "rule"} :
        ValidatorRan(kind) =>
            /\ agent_ret.value.extracted_data
                   = WellFormedRecords(kind, agent_items.items)
            /\ Len(agent_ret.value.errors)
                   = Len(agent_items.items)
                         - Len(WellFormedRecords(kind, agent_items.items))

\* C21: in every result of extract, success is true exactly when the errors
\* list is empty; a call with a label that matches no keyword returns no
\* items, no errors and success = true.
C21_SuccessIffNoErrors ==
    agent_ret.status = "returned" =>
        /\ agent_ret.value.success <=> (agent_ret.value.errors = <<>>)
        /\ DocKind(agent_call.document_type) = "none" =>
               agent_ret.value = ExtractResult(<<>>, <<>>, TRUE)

\* a call with an unmatched label and one with a matched label whose response
\* holds nothing to extract have both returned success = true
C21_Witness ==
    /\ agent_ret.status = "returned"
    /\ agent_call.use_llm
    /\ ~agent_call.llm.raises
    /\ agent_ret.value = ExtractResult(<<>>, <<>>, TRUE)
    /\ \/ DocKind(agent_call.document_type) = "none"
       \/ agent_call.llm.text = <<LB, RB>>

\* the label of the call matches a keyword
LabelMatched == DocKind(agent_call.document_type) # "none"

\* C24: every extract call with a label that matches a keyword calls
\* llm_client.generate exactly once, whatever the LLM does, and a call with
\* an unmatched label calls it zero times.
C24_LlmCalledExactlyOnce ==
    agent_ret.status # "none" =>
        Len(agent_llm_calls) = IF LabelMatched THEN 1 ELSE 0

\* C24, amended: every extract call of an agent with LLM extraction on
\* (use_llm true) and a label that matches a keyword calls
\* llm_client.generate exactly once, whatever the LLM does; with an
\* unmatched label, or with LLM extraction off, it is called zero times.
C24_LlmCalledOnceWhenEnabled ==
    agent_ret.status # "none" =>
        Len(agent_llm_calls) =
            IF agent_call.use_llm /\ LabelMatched THEN 1 ELSE 0

\* a call whose LLM raised has returned after its one generate call
C24_Witness ==
    /\ agent_ret.status = "returned"
    /\ agent_call.use_llm
    /\ LabelMatched
    /\ agent_call.llm.raises
    /\ Len(agent_llm_calls) = 1

\* C25: every ScheduleTask in the valid output of the validator has a
\* non-empty task_name, a duration_days >= 0 and finish_date >= start_date.
C25_ValidTasksKeepInvariants ==
    ValidatorRan("task") =>
        \A i \in 1..Len(agent_ret.value.extracted_data) :
            /\ agent_ret.value.extracted_data[i].task_name # ""
            /\ agent_ret.value.extracted_data[i].duration_days >= 0
            /\ agent_ret.value.extracted_data[i].finish_date
                   >= agent_ret.value.extracted_data[i].start_date

(***************************************************************************)
(* Properties of the PostgreSQLClient write calls (SpecPg)                 *)
(***************************************************************************)
\* the step is a client call
PgCallStep == pg_ncalls' # pg_ncalls

TaskIds == {r.task_id : r \in UNION {{b[i] : i \in 1..Len(b)} : b \in TaskBatches}}

\* the rows of project_tasks with one task_id
TaskRows(table, tid) == SelectSeq(table, LAMBDA row : row.task_id = tid)

\* the last record of a batch that carries the task_id
LastWrite(records, tid) ==
    LET idx == {i \in 1..Len(records) : records[i].task_id = tid}
    IN records[CHOOSE i \in idx : \A j \in idx : j <= i]

\* C8: after any sequence of insert_project_tasks calls project_tasks holds
\* at most one row per task_id, and that row carries the fields of the last
\* committed write for that task_id: a returning call leaves, for each
\* task_id it wrote, exactly one row equal to its last record for that
\* task_id, and no call changes the row of a task_id it did not write.
C8_UpsertOneRowPerTaskId ==
    [][PgCallStep =>
        \A tid \in TaskIds :
            LET written == /\ pg_call'.op = "insert_project_tasks"
                           /\ pg_ret'.status = "returned"
                           /\ \E i \in 1..Len(pg_call'.records) :
                                  pg_call'.records[i].task_id = tid
            IN /\ Len(TaskRows(project_tasks', tid)) <= 1
               /\ IF written
                  THEN TaskRows(project_tasks', tid)
                           = <<LastWrite(pg_call'.records, tid)>>
                  ELSE TaskRows(project_tasks', tid) = TaskRows(project_tasks, tid)
      ]_vars

\* C8 witness: task_id 1 was written twice, the second time with a changed
\* name, and the table holds the single row with the second name
C8_Witness ==
    /\ pg_call.op = "insert_project_tasks"
    /\ pg_call.records = <<ObjLiterals["T1a"].rec, ObjLiterals["T1b"].rec>>
    /\ pg_ret.status = "returned"
    /\ pg_ncalls = 2
    /\ project_tasks = <<ObjLiterals["T1b"].rec>>

\* C9: insert_cost_items adds one row per record and never deduplicates:
\* each returning call appends exactly the records passed, so the table
\* grows by their number.
C9_CostItemsInsertOnly ==
    [][(PgCallStep /\ pg_call'.op = "insert_cost_items" /\ pg_ret'.status = "returned")
        => /\ cost_items' = cost_items \o pg_call'.records
           /\ Len(cost_items') = Len(cost_items) + Len(pg_call'.records)
           /\ pg_ret'.count = Len(pg_call'.records)
      ]_vars

\* C9 witness: the identical CostItem was inserted twice, by two calls, and
\* is stored as two rows
C9_Witness ==
    /\ pg_call.op = "insert_cost_items"
    /\ pg_call.records = <<ObjLiterals["Ca"].rec>>
    /\ pg_ret.status = "returned"
    /\ cost_items = <<ObjLiterals["Ca"].rec, ObjLiterals["Ca"].rec>>

\* C10: a write call is all-or-nothing: when the write of a record (or the
\* commit) fails the call raises and the three tables are exactly as before
\* the call.
C10_WriteAllOrNothing ==
    [][(PgCallStep /\ pg_call'.fail_at # 0)
        => /\ pg_ret'.status = "raised"
           /\ table_vars' = table_vars
      ]_vars

\* C10 witness: the second record of a two-record batch failed after the
\* first had been executed, the call raised, and the table still holds
\* only what an earlier call stored
C10_Witness ==
    /\ pg_call.op = "insert_project_tasks"
    /\ pg_call.records = <<ObjLiterals["T1b"].rec>> \o <<ObjLiterals["T2a"].rec>>
    /\ pg_call.fail_at = 2
    /\ pg_ret.status = "raised"
    /\ project_tasks = <<ObjLiterals["T1a"].rec>>

(***************************************************************************)
(* Properties of process_document_flow (Spec)                              *)
(***************************************************************************)
\* the frame's trace holds a run of task that ended in state
TraceHas(frame, task, state) ==
    \E i \in 1..Len(frame.trace) :
        frame.trace[i].task = task /\ frame.trace[i].state = state

\* the frame's trace holds a run of task
TaskRan(frame, task) ==
    \E i \in 1..Len(frame.trace) : frame.trace[i].task = task

\* the number of runs of task in the frame's trace
RunsOf(frame, task) ==
    Cardinality({i \in 1..Len(frame.trace) : frame.trace[i].task = task})

FlowDone == flow.pc = "done"

\* the flow returned a result dict whose success is TRUE
FlowSucceeded ==
    /\ flow.outcome.status = "returned"
    /\ flow.outcome.value.success = TRUE

\* C1: when the dlt load raises and the fallback direct insert raises too,
\* the flow reports a record-store count of 0 and still runs the chunk stage
\* and, for a non-empty text, the vector-store load: the document is not
\* aborted.
C1_RecordStoreFailureTolerated ==
    (FlowDone /\ TraceHas(flow, "load_to_postgres", "Failed")) =>
        /\ FlowSucceeded
        /\ flow.outcome.value.postgres_records = 0
        /\ TaskRan(flow, "chunk_document")
        /\ flow.parsed_data.full_text # <<>> => TaskRan(flow, "load_to_chromadb")

\* C4: every run whose parse stage succeeded and whose extract stage
\* returned ends with success = TRUE, whatever the record-store and the
\* vector-store stages did.
C4_SuccessAfterParseAndExtract ==
    (/\ FlowDone
     /\ TraceHas(flow, "parse_pdf", "Completed")
     /\ TraceHas(flow, "extract_structured_data", "Completed"))
        => FlowSucceeded

\* C6: when every attempt of the parse stage fails, the flow returns a
\* result with success = FALSE and an error string, and no later stage has
\* run: the trace holds the parse attempts and the failure notification
\* only, and a first run leaves every store empty.
C6_ParseFailureAborts ==
    (FlowDone /\ ~TraceHas(flow, "parse_pdf", "Completed")) =>
        /\ flow.outcome.status = "returned"
        /\ flow.outcome.value.success = FALSE
        /\ "error" \in DOMAIN flow.outcome.value
        /\ flow.outcome.value.error = ParseError(flow.pdf_path)
        /\ RunsOf(flow, "parse_pdf") = ParseRetries + 1
        /\ \A i \in 1..Len(flow.trace) :
               flow.trace[i].task \in {"parse_pdf", "notify_failure"}
        /\ flow.extracted_data = FlowIdle.extracted_data
        /\ flow.chunks = <<>>
        /\ Len(flow_runs) = 1 => TablesEmpty /\ DltEmpty /\ collection = <<>>

\* C6 witness: the third parse attempt of a first run failed and the flow
\* has returned its failure result.
C6_Witness ==
    /\ FlowDone
    /\ Len(flow_runs) = 1
    /\ flow.attempts = 3
    /\ ~TraceHas(flow, "parse_pdf", "Completed")
    /\ flow.outcome.value.success = FALSE

\* the natural key of a record of the kind
NaturalKey(kind, record) ==
    IF kind = "task" THEN record.task_id ELSE record.rule_id

\* the rows of a table whose natural key is key
RowsWithKey(kind, table, key) ==
    SelectSeq(table, LAMBDA row : NaturalKey(kind, row) = key)

\* the number of records the record store holds under the key, over the
\* table dlt loads and the table PostgreSQLClient writes
StoredUnderKey(kind, key) ==
    IF kind = "task"
    THEN Len(RowsWithKey(kind, dlt_project_tasks, key))
         + Len(RowsWithKey(kind, project_tasks, key))
    ELSE Len(RowsWithKey(kind, dlt_regulatory_rules, key))
         + Len(RowsWithKey(kind, regulatory_rules, key))

\* runs i and j processed the same document and extracted the same records
SameIngestion(i, j) ==
    /\ flow_runs[i].pdf_path = flow_runs[j].pdf_path
    /\ flow_runs[i].document_type = flow_runs[j].document_type
    /\ flow_runs[i].extracted_data = flow_runs[j].extracted_data
    /\ flow_runs[i].outcome.value.success
    /\ flow_runs[j].outcome.value.success

\* C7: after process_document_flow ran twice on the same schedule or
\* regulatory document with the same extraction output, the record store
\* holds exactly one record per natural key of that output.
C7_ReingestionKeepsOneRecordPerKey ==
    \A i, j \in 1..Len(flow_runs) :
        (/\ i < j
         /\ DocKind(flow_runs[i].document_type) \in {"task", "rule"}
         /\ SameIngestion(i, j))
            => \A k \in 1..Len(flow_runs[j].extracted_data) :
                   StoredUnderKey(DocKind(flow_runs[j].document_type),
                       NaturalKey(DocKind(flow_runs[j].document_type),
                                  flow_runs[j].extracted_data[k])) = 1

\* the stages of the flow after the parse stage
LaterStages ==
    {"extract_structured_data", "load_to_postgres", "chunk_document",
     "load_to_chromadb"}

\* C22: within one invocation of process_document_flow the parser runs at
\* most 3 times (one attempt and 2 retries) and each of the extract,
\* record-store load, chunk and vector-store load stages runs at most once.
C22_OnlyParseIsRetried ==
    /\ RunsOf(flow, "parse_pdf") <= 3
    /\ \A task \in LaterStages : RunsOf(flow, task) <= 1

\* an invocation whose parse succeeded on the third attempt has run every
\* later stage once and is done
C22_Witness ==
    /\ FlowDone
    /\ RunsOf(flow, "parse_pdf") = 3
    /\ TraceHas(flow, "parse_pdf", "Completed")
    /\ \A task \in LaterStages : RunsOf(flow, task) = 1

\* the records the extraction of the invocation under way has validated
ValidatedRecords == flow.extracted_data.extracted_data

\* a flow is under way or done, before and after the step
InFlow == flow.pc # "idle" /\ flow'.pc \notin {"idle", "parse"}

\* C23: the record-store load is attempted if and only if the extraction
\* yielded at least one validated record, also when the batch produced
\* validation errors as well; with no validated record no step of the
\* invocation writes to the record store and postgres_records is 0.
C23_LoadIffValidatedRecords ==
    /\ [](/\ TaskRan(flow, "load_to_postgres") => ValidatedRecords # <<>>
          /\ (TaskRan(flow, "chunk_document") /\ ValidatedRecords # <<>>)
                 => TaskRan(flow, "load_to_postgres")
          /\ (FlowSucceeded /\ ValidatedRecords = <<>>)
                 => flow.outcome.value.postgres_records = 0)
    /\ [][(InFlow /\ flow'.extracted_data.extracted_data = <<>>)
             => UNCHANGED <<table_vars, dlt_vars>>]_vars

\* a batch with one validated record and one validation error was loaded
C23_Witness ==
    /\ FlowSucceeded
    /\ ValidatedRecords # <<>>
    /\ flow.extracted_data.errors # <<>>
    /\ TraceHas(flow, "load_to_postgres", "Completed")
    /\ flow.outcome.value.postgres_records = Len(ValidatedRecords)

\* the table PostgreSQLClient keeps for the records of a kind
DirectTable(kind) ==
    CASE kind = "task" -> project_tasks
      [] kind = "cost" -> cost_items
      [] OTHER -> regulatory_rules

\* the record-store load of the invocation took the except branch, after the
\* dlt load raised, and returned
FallbackReturned ==
    \E i \in 1..Len(flow.trace) :
        flow.trace[i] = Completed("load_to_postgres", "fallback")

\* C26: for each of the three record kinds, when the dlt load raises,
\* load_to_postgres_task writes the validated records through the direct
\* PostgreSQLClient insert and returns the number written.
C26_FallbackForEveryKind ==
    FallbackReturned =>
        /\ flow.postgres_count = Len(ValidatedRecords)
        /\ \A i \in 1..Len(ValidatedRecords) :
               \E j \in 1..Len(DirectTable(DocKind(flow.document_type))) :
                   DirectTable(DocKind(flow.document_type))[j] = ValidatedRecords[i]

(***************************************************************************)
(* Properties of process_all_documents_flow (SpecDir)                      *)
(***************************************************************************)
\* C5: process_all_documents_flow returns one entry per PDF file, in
\* iteration order; each entry is what the flow of its own file returned, a
\* failed file yields an entry with success = FALSE and an error, and no
\* exception leaves the loop.
C5_OneResultPerDocument ==
    /\ dir_pc # "raised"
    /\ Len(results) <= Len(pdf_files)
    /\ dir_pc = "done" => Len(results) = Len(pdf_files)
    /\ \A i \in 1..Len(results) :
           /\ results[i].pdf_path = pdf_files[i]
           /\ flow_runs[i].outcome = Returned(results[i])
           /\ results[i].success \in BOOLEAN
           /\ results[i].success = FALSE => "error" \in DOMAIN results[i]

\* C5 witness: a directory of three files whose second file failed to parse
\* on every attempt; the run returned three entries, the first and the third
\* successful.
C5_Witness ==
    /\ dir_pc = "done"
    /\ Len(pdf_files) = 3
    /\ Len(results) = 3
    /\ results[1].success = TRUE
    /\ results[2].success = FALSE
    /\ results[2].error = ParseError(pdf_files[2])
    /\ results[3].success = TRUE

(***************************************************************************)
(* Properties of chunk_document_task (SpecChunk)                           *)
(***************************************************************************)

\* the call has returned its list of chunks
ChunkerReturned == chunker.pc = "returned"

\* the start offsets of the chunks returned, in order
ChunkStarts == [i \in 1..Len(chunker.chunks) |-> chunker.chunks[i].metadata.start_char]

\* the smallest integer that is at least a / b, for b > 0
CeilDiv(a, b) == CHOOSE q \in -(MaxTextLen + 2500)..(MaxTextLen + 2500) :
                     q * b >= a /\ (q - 1) * b < a

\* the call is on the 2500 character text with size 1000 and overlap 200
ExampleCall ==
    /\ Len(chunker.full_text) = 2500
    /\ chunker.chunk_size = 1000
    /\ chunker.chunk_overlap = 200

\* C16: chunk_document_task on a text of 2500 characters with chunk size
\* 1000 and overlap 200 returns 3 chunks, which start at 0, 800 and 1600.
C16_ExampleYieldsThreeChunks ==
    (ChunkerReturned /\ ExampleCall) => ChunkStarts = <<0, 800, 1600>>

\* C17: for a non-empty text and 0 <= overlap < size, the number of chunks
\* returned is ceil((len - overlap) / (size - overlap)).
C17_ChunkCountFormula ==
    (/\ ChunkerReturned
     /\ chunker.full_text # <<>>
     /\ 0 <= chunker.chunk_overlap
     /\ chunker.chunk_overlap < chunker.chunk_size)
    => Len(chunker.chunks) =
           CeilDiv(Len(chunker.full_text) - chunker.chunk_overlap,
                   chunker.chunk_size - chunker.chunk_overlap)

\* C18: a call with overlap >= size on a non-empty text is guarded: it ends
\* by signalling a configuration error, and the loop body never runs.
C18_OverlapNotBelowSizeGuarded ==
    (/\ chunker.pc \notin {"idle", "call"}
     /\ chunker.full_text # <<>>
     /\ chunker.chunk_overlap >= chunker.chunk_size)
    => chunker.pc = "raised" /\ chunker.chunks = <<>>

\* the characters of a chunk's text (the characters of a text of the model
\* are its positions, so each occurs once in the text)
CharsOf(chunk) == {chunk.chunk_text[k] : k \in 1..Len(chunk.chunk_text)}

\* C29: for 0 <= overlap < size, every chunk returned after the first holds
\* at least one character that lies beyond the end of the chunk before it.
C29_EveryChunkAddsText ==
    (/\ ChunkerReturned
     /\ 0 <= chunker.chunk_overlap
     /\ chunker.chunk_overlap < chunker.chunk_size)
    => \A i \in 2..Len(chunker.chunks) :
           \E c \in CharsOf(chunker.chunks[i]) :
               /\ c \notin CharsOf(chunker.chunks[i - 1])
               /\ \A p \in CharsOf(chunker.chunks[i - 1]) : c > p

(***************************************************************************)
(* Properties of ChromaDBClient (SpecChroma)                               *)
(***************************************************************************)

\* C19: during and after clear_all_data no caller, of this or of another
\* client instance, observes the collection as missing: as long as no
\* delete_collection() call has deleted a collection, no add_chunks,
\* search, get_collection_stats or clear_all_data call finds it gone.
C19_CollectionNeverMissing ==
    ~chroma_store.dropped =>
        \A c \in DOMAIN clients :
            clients[c].ret.op # "delete_collection" => ~clients[c].ret.missing

\* the entries stored under an id
StoredUnderId(coll, id) == SelectSeq(coll, LAMBDA entry : entry.id = id)

\* this step is the return of an add_chunks call of client c
AddChunksReturns(c) ==
    /\ clients'[c].ret.op = "add_chunks"
    /\ clients'[c].ret.status = "returned"
    /\ clients'[c].ret # clients[c].ret

\* C20: add_chunks overwrites on a duplicate id: when it returns, the
\* collection holds under the id of every chunk handed in exactly one entry,
\* the one made from that chunk.
C20_AddChunksOverwrites ==
    [][\A c \in DOMAIN clients :
          AddChunksReturns(c) =>
              \A i \in 1..Len(clients'[c].ret.value) :
                  StoredUnderId(collection', clients'[c].ret.value[i].chunk_id)
                      = <<ChromaEntry(clients'[c].ret.value[i])>>]_vars


(***************************************************************************)
(* Properties of the record store (SpecStore)                              *)
(***************************************************************************)

QueryOps == {"query_project_tasks", "query_cost_items"}

\* C27: a query_project_tasks or query_cost_items call that follows a
\* returned clear_all_data returns no records, whichever write path stored
\* the records before the clear.
C27_ClearEmptiesTheSink ==
    [][(/\ pg_call.op = "clear_all_data"
        /\ pg_ret.status = "returned"
        /\ pg_call'.op \in QueryOps) => pg_ret'.value = <<>>]_vars

\* the rows of a returned query
Returns(row) == \E i \in 1..Len(pg_ret.value) : pg_ret.value[i] = row

\* C30: a returned query_project_tasks none of whose queries raised and
\* whose limit is at least the number of stored tasks returns every task
\* stored by a load, on the dlt path or on the fallback path.
C30_QueryReturnsEveryStoredTask ==
    (/\ pg_call.op = "query_project_tasks"
     /\ pg_ret.status = "returned"
     /\ ~pg_call.dlt_fails /\ ~pg_call.query_fails
     /\ pg_call.limit >= Len(dlt_project_tasks) + Len(project_tasks))
    => /\ \A i \in 1..Len(dlt_project_tasks) : Returns(TaskRow(dlt_project_tasks[i]))
       /\ \A i \in 1..Len(project_tasks) : Returns(TaskRow(project_tasks[i]))


(***************************************************************************)
(* Properties of two flows under way at once (SpecPair)                    *)
(***************************************************************************)

\* the contents of the record store and of the vector store
Stores ==
    [project_tasks |-> project_tasks, cost_items |-> cost_items,
     regulatory_rules |-> regulatory_rules,
     dlt_project_tasks |-> dlt_project_tasks, dlt_cost_items |-> dlt_cost_items,
     dlt_regulatory_rules |-> dlt_regulatory_rules, collection |-> collection]

EmptyStores == [k \in DOMAIN Stores |-> <<>>]

\* the table a load of this kind writes to, on the dlt or on the direct path
TableOf(kind, path) ==
    CASE kind = "task" -> IF path = "dlt" THEN "dlt_project_tasks" ELSE "project_tasks"
      [] kind = "cost" -> IF path = "dlt" THEN "dlt_cost_items" ELSE "cost_items"
      [] OTHER -> IF path = "dlt" THEN "dlt_regulatory_rules" ELSE "regulatory_rules"

\* the stores after the record-store load of a finished flow, run with
\* nothing else under way: the load it completed, on the path it took
AfterRecordLoad(frame, stores) ==
    LET kind == DocKind(frame.document_type)
        data == frame.extracted_data.extracted_data
    IN  IF \E i \in 1..Len(frame.trace) :
               frame.trace[i] = Completed("load_to_postgres", "dlt")
        THEN IF kind = "none" THEN stores
             ELSE [stores EXCEPT ![TableOf(kind, "dlt")] = DltAppend(@, data)]
        ELSE IF \E i \in 1..Len(frame.trace) :
                    frame.trace[i] = Completed("load_to_postgres", "fallback")
        THEN [stores EXCEPT ![TableOf(kind, "direct")] =
                                FallbackInsert(kind, @, data, 0).table]
        ELSE stores

\* the stores after the vector-store load of a finished flow, likewise
AfterVectorLoad(frame, stores) ==
    IF TraceHas(frame, "load_to_chromadb", "Completed")
    THEN [stores EXCEPT !.collection = AddChunks(@, frame.chunks, FALSE).collection]
    ELSE stores

\* the stores after the whole flow ran alone on them, its tasks returning
\* what they returned to the finished flow
RunAlone(frame, stores) == AfterVectorLoad(frame, AfterRecordLoad(frame, stores))

\* the two sequences hold the same rows, each as many times
SameRows(s, t) ==
    /\ Len(s) = Len(t)
    /\ \A i \in 1..Len(s) :
           Cardinality({j \in 1..Len(s) : s[j] = s[i]})
               = Cardinality({j \in 1..Len(t) : t[j] = s[i]})

SameContents(a, b) == \A k \in DOMAIN a : SameRows(a[k], b[k])

\* both flows of the pair have left
PairDone == flow.pc = "done" /\ peer.pc = "done"

\* C28: when two flows on different documents have both left, whatever the
\* interleaving of their task runs, the record store and the vector store
\* hold what they hold after the two flows ran one after the other in one
\* of the two orders, each task returning what it returned here (so that
\* the two results are those of the sequential runs).
C28_ConcurrentFlowsAreSerializable ==
    PairDone =>
        \/ SameContents(Stores, RunAlone(peer, RunAlone(flow, EmptyStores)))
        \/ SameContents(Stores, RunAlone(flow, RunAlone(peer, EmptyStores)))

====
